---- MODULE Spec2Model ----
(***************************************************************************)
(* A model of nagoya-bus-mcp: the approach resolution engine               *)
(* (approach.py), the station approach aggregator (mcp/tools.py) and the   *)
(* upstream gateway (client.py).                                           *)
(*                                                                         *)
(* Python strings are sequences of one-character strings, so that slicing, *)
(* zero padding, slash removal and lexicographic comparison are computed   *)
(* as the code computes them.  Python indices are kept 0-based: element i  *)
(* of a Python list is element i + 1 of the sequence.                      *)
(***************************************************************************)
EXTENDS Integers, Sequences, FiniteSets, TLC

VARIABLES
    \* get_realtime_approach (approach.py): one call of the engine
    pc,                 \* "idle" | "get_keito" | "get_realtime_approach" | "done" | "failed"
    keito,              \* KeitoResponse.busstops returned by client.get_keito
    approach,           \* ApproachInfoResponse returned by client.get_realtime_approach
    result,             \* the ApproachInfo returned, NoInfo before
    error,              \* the exception raised, "" when none
    q_code,             \* argument of the last derived query on result
    q_positions,        \* its get_current_positions_before_code value
    issued,             \* the gateway operations the call has started so far
    \* get_approach_for_station (mcp/tools.py)
    st_pc,              \* "idle" | "get_bus_stop" | "gather" | "done" | "failed"
    st_number,          \* the station_number argument
    route_codes,        \* list of (keito, pole code) pairs
    tasks,              \* per pair: the fanned-out engine call
    st_approaches,      \* the (sort_key, route) pairs kept by the aggregation loop
    st_routes,          \* ApproachForStationResponse.routes
    st_error,           \* the exception raised by the tool, "" when none
    \* Client (client.py)
    cl_op,              \* the gateway operation called, "" when none
    cl_upstream,        \* what upstream answers to the first, second, ... request
    cl_sent,            \* the number of requests the operation sent
    cl_response,        \* the httpx.Response the operation worked on
    cl_outcome,         \* "" | "returned" | the class of the exception raised
    \* the tools get_station_number and get_timetable (mcp/tools.py)
    tool_pc,            \* "boot" | "ready" | "returned" | "raised"
    base_stations,      \* StationNamesResponse.root held by BaseData
    tool_call,          \* the tool called and its argument
    tool_value,         \* the response returned
    tool_error,         \* the ToolError message, <<>> when none
    tool_requests,      \* requests the tool made to the gateway
    \* the memoized route masters and the tasks that use them (mcp/tools.py)
    _cached_route_masters,  \* dict: route code -> KeitoResponse
    callers,            \* per task: its invocation of get_approach
    calls,              \* invocations begun so far
    feed_now,           \* the live feed upstream serves at this moment
    keito_served,       \* per route code: the route masters upstream returned
    keito_fetches,      \* per route code: client.get_keitos requests
    keito_callers,      \* per route code: invocations that asked for its master
    feed_fetches,       \* client.get_realtime_approach requests answered
    \* the server lifespan (mcp/server.py) and its shared Client
    ls_pc,              \* "start" | "init_base_data" | "serving" | "exited"
    bus_client,         \* "none" | "open" | "closed"
    ls_created,         \* Clients constructed
    ls_exit,            \* how the scope was left, "" while inside
    ls_sent,            \* requests sent through the client
    ls_sent_closed,     \* requests sent through the client after its close
    ls_last,            \* the last gateway operation tried and its outcome
    \* _resolve_bus_stop (approach.py) called on one code
    rs_pc,              \* "idle" | "resolved" | "again"
    rs_code,            \* the bus_stop_code argument
    rs_stop,            \* [error, value] of the call
    rs_again,           \* [error, value] of a second call with the same argument
    \* _normalize_route_name (approach.py)
    rn_pc,              \* "idle" | "normalized" | "again"
    rn_name,            \* the name argument
    rn_route,           \* the normalized name
    rn_again            \* the normalized name, normalized once more

engine_vars == <<pc, keito, approach, result, error, q_code, q_positions, issued>>
station_vars == <<st_pc, st_number, route_codes, tasks, st_approaches, st_routes, st_error>>
client_vars == <<cl_op, cl_upstream, cl_sent, cl_response, cl_outcome>>
tool_vars == <<tool_pc, base_stations, tool_call, tool_value, tool_error, tool_requests>>
cache_vars == <<_cached_route_masters, callers, calls, feed_now, keito_served, keito_fetches,
               keito_callers, feed_fetches>>
server_vars == <<ls_pc, bus_client, ls_created, ls_exit, ls_sent, ls_sent_closed, ls_last>>
resolve_vars == <<rs_pc, rs_code, rs_stop, rs_again>>
normalize_vars == <<rn_pc, rn_name, rn_route, rn_again>>
vars == <<engine_vars, station_vars, client_vars, tool_vars, cache_vars, server_vars,
          resolve_vars, normalize_vars>>

----------------------------------------------------------------------------
(* Bounds of the model *)

\* longest stop sequence of a route master
MaxStops == 3
\* most (car, time) pairs in one live feed, both event classes together
MaxEvents == 2
\* most (route, pole) pairs of one station
MaxPairs == 2
\* longest station name
MaxNameLen == 2
\* most entries of the station table
MaxStations == 2
\* concurrent tasks calling a tool
MaxTasks == 2
\* invocations of get_approach, all tasks together
MaxCalls == 3
\* changes of the live feed upstream
MaxTicks == 1
\* gateway operations tried during one server lifespan
MaxRequests == 3
\* longest stop sequence of a route master whose codes are not validated
MaxRoute == 2
\* longest route name
MaxRouteNameLen == 2

----------------------------------------------------------------------------
(* Python string and list primitives *)

Range(s) == {s[i] : i \in 1..Len(s)}

DigitChars == <<"0", "1", "2", "3", "4", "5", "6", "7", "8", "9">>

\* code points, as far as the order of the characters used matters
Ord(c) ==
    CASE c = "/" -> 47
      [] c \in Range(DigitChars) -> 48 + (CHOOSE d \in 0..9 : DigitChars[d + 1] = c)
      [] c = ":" -> 58
      [] c = "a" -> 97
      [] c = "b" -> 98
      [] OTHER -> 80

\* str.__ge__: lexicographic order by code point, a proper prefix is smaller
RECURSIVE str_ge(_, _)
str_ge(a, b) ==
    IF b = <<>> THEN TRUE
    ELSE IF a = <<>> THEN FALSE
    ELSE IF Head(a) = Head(b) THEN str_ge(Tail(a), Tail(b))
    ELSE Ord(Head(a)) > Ord(Head(b))

\* characters str.isdigit accepts and int() rejects: "sup2" stands for the
\* one character U+00B2 SUPERSCRIPT TWO
OtherDigits == {"sup2"}

\* str.isdigit (a non-empty string of digits)
isdigit(s) == s # <<>> /\ \A i \in 1..Len(s) : s[i] \in Range(DigitChars) \cup OtherDigits

\* str.lstrip("0")
RECURSIVE lstrip0(_)
lstrip0(s) == IF s # <<>> /\ Head(s) = "0" THEN lstrip0(Tail(s)) ELSE s

\* int(s); -1 stands for the ValueError of int("") and of a string holding a
\* character that is no decimal digit
RECURSIVE int(_)
int(s) ==
    IF s = <<>> \/ \E i \in 1..Len(s) : s[i] \notin Range(DigitChars) THEN -1
    ELSE IF Len(s) = 1 THEN CHOOSE d \in 0..9 : DigitChars[d + 1] = s[1]
    ELSE 10 * int(SubSeq(s, 1, Len(s) - 1)) + int(<<s[Len(s)]>>)

\* str(n) for a natural number
RECURSIVE str(_)
str(n) == IF n < 10 THEN <<DigitChars[n + 1]>> ELSE str(n \div 10) \o <<DigitChars[(n % 10) + 1]>>

\* f"{n:05}": decimal, zero-padded on the left to at least 5 characters
RECURSIVE zfill(_, _)
zfill(s, width) == IF Len(s) >= width THEN s ELSE zfill(<<"0">> \o s, width)

format05(n) == zfill(str(n), 5)

\* str.replace("/", "")
replace_slash(s) == SelectSeq(s, LAMBDA c : c # "/")

\* index of the last occurrence instead of the first
index_Last(list, x) ==
    IF \E i \in 1..Len(list) : list[i] = x
    THEN (CHOOSE i \in 1..Len(list) :
            list[i] = x /\ \A j \in (i + 1)..Len(list) : list[j] # x) - 1
    ELSE -1

\* index that answers 0 for a missing element instead of raising
index_OrFirst(list, x) ==
    IF \E i \in 1..Len(list) : list[i] = x
    THEN (CHOOSE i \in 1..Len(list) : list[i] = x /\ \A j \in 1..(i - 1) : list[j] # x) - 1
    ELSE 0

\* list.index(x), 0-based; -1 stands for the ValueError of a missing element
index(list, x) ==
    IF \E i \in 1..Len(list) : list[i] = x
    THEN (CHOOSE i \in 1..Len(list) : list[i] = x /\ \A j \in 1..(i - 1) : list[j] # x) - 1
    ELSE -1

\* getitem one place too far to the right
getitem_Next(list, i) == list[i + 2]

\* getitem one place too far to the left
getitem_OffByOne(list, i) == IF i - 1 >= 0 THEN list[i] ELSE list[Len(list) + i]

\* list[i] for an index in range, counted from the end when negative
getitem(list, i) == IF i >= 0 THEN list[i + 1] ELSE list[Len(list) + i + 1]

\* dict[key] = value
Put(dict, key, value) ==
    [k \in DOMAIN dict \cup {key} |-> IF k = key THEN value ELSE dict[k]]

EmptyDict == [k \in {} |-> 0]

----------------------------------------------------------------------------
(* The data of one run: bus-stop codes, feed keys, cars, times *)

\* bus-stop codes: 5-digit station number followed by the pole code
Code1P == <<"0", "0", "0", "0", "1", "P">>
Code1Q == <<"0", "0", "0", "0", "1", "Q">>
Code2P == <<"0", "0", "0", "0", "2", "P">>
StopCodes == {Code1P, Code1Q, Code2P}

\* the live feed's key of a stop: station number "/" pole code
FeedKey(code) == SubSeq(code, 1, 5) \o <<"/">> \o SubSeq(code, 6, Len(code))

FeedKeys == {FeedKey(c) : c \in StopCodes}

CarCodes == {"NF 0001", "NF 0002"}

Time20 == <<"2", "0", ":", "0", "0", ":", "0", "0">>
Time21 == <<"2", "1", ":", "0", "0", ":", "0", "0">>
PassedTimes == {Time20, Time21}

None == "None"

\* BaseData: the station table and the pole table loaded at start-up.
\* Station 2 and the pole 1Q are missing from the snapshot.
station_name_by_number == [n \in {1, 3} |-> IF n = 1 THEN "Sakae" ELSE "Noda"]
pole_name_by_code == [c \in {Code1P, Code2P} |-> IF c = Code1P THEN "1ban" ELSE "2ban"]

get_station_name(number) ==
    IF number \in DOMAIN station_name_by_number THEN station_name_by_number[number] ELSE None

get_pole_name(code) ==
    IF code \in DOMAIN pole_name_by_code THEN pole_name_by_code[code] ELSE None

\* the placeholders of _resolve_bus_stop and get_approach_for_station
UnknownBusStop == "unknown bus stop"
UnknownPole == "unknown pole"

----------------------------------------------------------------------------
(* approach.py *)

NoBusStop == [bus_stop_code |-> <<>>, station_number |-> 0, station_name |-> "", pole |-> ""]

\* _resolve_bus_stop that coerces a malformed code to station 0 instead of raising
_resolve_bus_stop_Lenient(bus_stop_code) ==
    IF Len(bus_stop_code) < 5 \/ ~isdigit(SubSeq(bus_stop_code, 1, 5))
    THEN [error |-> "",
          value |-> [bus_stop_code |-> bus_stop_code, station_number |-> 0,
                     station_name |-> UnknownBusStop, pole |-> UnknownPole]]
    ELSE LET station_number == int(lstrip0(SubSeq(bus_stop_code, 1, 5)))
             station_name == get_station_name(station_number)
             pole_name == get_pole_name(bus_stop_code)
         IN  IF station_number = -1
             THEN [error |-> "ValueError", value |-> NoBusStop]
             ELSE [error |-> "",
                   value |-> [bus_stop_code |-> bus_stop_code,
                              station_number |-> station_number,
                              station_name |-> IF station_name = None THEN UnknownBusStop
                                               ELSE station_name,
                              pole |-> IF pole_name = None THEN UnknownPole ELSE pole_name]]

\* _resolve_bus_stop that raises when the reference data has no name
_resolve_bus_stop_Strict(bus_stop_code) ==
    IF Len(bus_stop_code) < 5 \/ ~isdigit(SubSeq(bus_stop_code, 1, 5))
    THEN [error |-> "ValueError", value |-> NoBusStop]
    ELSE LET station_number == int(lstrip0(SubSeq(bus_stop_code, 1, 5)))
             station_name == get_station_name(station_number)
             pole_name == get_pole_name(bus_stop_code)
         IN  IF station_number = -1
             THEN [error |-> "ValueError", value |-> NoBusStop]
             ELSE IF station_name = None \/ pole_name = None
             THEN [error |-> "KeyError", value |-> NoBusStop]
             ELSE [error |-> "",
                   value |-> [bus_stop_code |-> bus_stop_code,
                              station_number |-> station_number,
                              station_name |-> station_name,
                              pole |-> pole_name]]

\* lines 99-112, _resolve_bus_stop: [error, value]; the ValueError is that of
\* line 103 or that of int() on line 104
_resolve_bus_stop(bus_stop_code) ==
    IF Len(bus_stop_code) < 5 \/ ~isdigit(SubSeq(bus_stop_code, 1, 5))
    THEN [error |-> "ValueError", value |-> NoBusStop]
    ELSE LET station_number == int(lstrip0(SubSeq(bus_stop_code, 1, 5)))
             station_name == get_station_name(station_number)
             pole_name == get_pole_name(bus_stop_code)
         IN  IF station_number = -1
             THEN [error |-> "ValueError", value |-> NoBusStop]
             ELSE [error |-> "",
                   value |-> [bus_stop_code |-> bus_stop_code,
                              station_number |-> station_number,
                              station_name |-> IF station_name = None THEN UnknownBusStop
                                               ELSE station_name,
                              pole |-> IF pole_name = None THEN UnknownPole ELSE pole_name]]

\* code_to_bus_stop[code] (line 152): the dict comprehension keeps, for a
\* repeated code, the last of its (equal) resolutions
code_to_bus_stop(bus_stops, code) ==
    bus_stops[CHOOSE i \in 1..Len(bus_stops) :
                /\ bus_stops[i].bus_stop_code = code
                /\ \A j \in (i + 1)..Len(bus_stops) : bus_stops[j].bus_stop_code # code]

ApproachPosition(car_code, previous_stop, passed_time, next_stop) ==
    [car_code |-> car_code, previous_stop |-> previous_stop,
     passed_time |-> passed_time, next_stop |-> next_stop]

\* KeepRetained with the comparison turned round: the oldest pass is retained
KeepRetained_Oldest(latest_passes, previous_stop_id, passed_time) ==
    /\ previous_stop_id \in DOMAIN latest_passes
    /\ str_ge(passed_time, latest_passes[previous_stop_id].passed_time)

\* KeepRetained with > for >=: an update of equal passed_time replaces the record
KeepRetained_Strict(latest_passes, previous_stop_id, passed_time) ==
    /\ previous_stop_id \in DOMAIN latest_passes
    /\ str_ge(latest_passes[previous_stop_id].passed_time, passed_time)
    /\ latest_passes[previous_stop_id].passed_time # passed_time

\* lines 165-168: the retained record is kept and the update discarded
KeepRetained(latest_passes, previous_stop_id, passed_time) ==
    /\ previous_stop_id \in DOMAIN latest_passes
    /\ str_ge(latest_passes[previous_stop_id].passed_time, passed_time)

\* lines 164-175: the cars of one latest-pass key, from the i-th on
RECURSIVE LatestPassCars(_, _, _, _, _)
LatestPassCars(latest_passes, previous_stop, next_stop, passed_cars, i) ==
    IF i > Len(passed_cars) THEN latest_passes
    ELSE LET car == passed_cars[i]
             previous_stop_id == previous_stop.bus_stop_code
         IN  LatestPassCars(
                 IF KeepRetained(latest_passes, previous_stop_id, car.passed_time)
                 THEN latest_passes
                 ELSE Put(latest_passes, previous_stop_id,
                          ApproachPosition(car.car_code, previous_stop,
                                           car.passed_time, next_stop)),
                 previous_stop, next_stop, passed_cars, i + 1)

\* IsFirstStop without the check: bus_stop_codes[-1] becomes the previous stop
IsFirstStop_Never(next_stop_index) == FALSE

\* lines 158-162 and 181-185: the event is dropped
IsFirstStop(next_stop_index) == next_stop_index = 0

\* lines 154-175: the keys of latest_bus_pass, from the i-th on: [error, value]
RECURSIVE LatestPasses(_, _, _, _, _)
LatestPasses(bus_stop_codes, bus_stops, latest_bus_pass, i, latest_passes) ==
    IF i > Len(latest_bus_pass) THEN [error |-> "", value |-> latest_passes]
    ELSE LET next_stop_id == replace_slash(latest_bus_pass[i].key)
             next_stop_index == index(bus_stop_codes, next_stop_id)
         IN  IF next_stop_index = -1
             THEN [error |-> "ValueError", value |-> latest_passes]
             ELSE IF IsFirstStop(next_stop_index)
             THEN LatestPasses(bus_stop_codes, bus_stops, latest_bus_pass, i + 1,
                               latest_passes)
             ELSE LET previous_stop_id == getitem(bus_stop_codes, next_stop_index - 1)
                  IN  LatestPasses(bus_stop_codes, bus_stops, latest_bus_pass, i + 1,
                          LatestPassCars(latest_passes,
                                         code_to_bus_stop(bus_stops, previous_stop_id),
                                         code_to_bus_stop(bus_stops, next_stop_id),
                                         latest_bus_pass[i].cars, 1))

\* PositionsOfKey collapsing a key to its first car
PositionsOfKey_FirstCar(previous_stop, next_stop, passed_cars) ==
    <<ApproachPosition(passed_cars[1].car_code, previous_stop,
                       passed_cars[1].passed_time, next_stop)>>

\* lines 187-195: one ApproachPosition per car of the key, in dict order
PositionsOfKey(previous_stop, next_stop, passed_cars) ==
    [i \in 1..Len(passed_cars) |->
        ApproachPosition(passed_cars[i].car_code, previous_stop,
                         passed_cars[i].passed_time, next_stop)]

\* lines 177-195: the keys of current_bus_positions, from the i-th on
RECURSIVE CurrentPositions(_, _, _, _, _)
CurrentPositions(bus_stop_codes, bus_stops, current_bus_positions, i, current_positions) ==
    IF i > Len(current_bus_positions) THEN [error |-> "", value |-> current_positions]
    ELSE LET next_stop_id == replace_slash(current_bus_positions[i].key)
             next_stop_index == index(bus_stop_codes, next_stop_id)
         IN  IF next_stop_index = -1
             THEN [error |-> "ValueError", value |-> current_positions]
             ELSE IF IsFirstStop(next_stop_index)
             THEN CurrentPositions(bus_stop_codes, bus_stops, current_bus_positions,
                                   i + 1, current_positions)
             ELSE LET previous_stop_id == getitem(bus_stop_codes, next_stop_index - 1)
                  IN  CurrentPositions(bus_stop_codes, bus_stops, current_bus_positions,
                          i + 1,
                          current_positions \o
                          PositionsOfKey(code_to_bus_stop(bus_stops, previous_stop_id),
                                         code_to_bus_stop(bus_stops, next_stop_id),
                                         current_bus_positions[i].cars))

NoInfo == [bus_stops |-> <<>>, latest_passes |-> EmptyDict, current_positions |-> <<>>]

\* lines 149-209, what get_realtime_approach computes from the two responses:
\* [error, value]
ApproachInfo(bus_stop_codes, approach_response) ==
    LET resolved == [i \in 1..Len(bus_stop_codes) |-> _resolve_bus_stop(bus_stop_codes[i])]
        bus_stops == [i \in 1..Len(bus_stop_codes) |-> resolved[i].value]
    IN  IF \E i \in 1..Len(resolved) : resolved[i].error # ""
        THEN [error |-> "ValueError", value |-> NoInfo]
        ELSE LET latest == LatestPasses(bus_stop_codes, bus_stops,
                                        approach_response.latest_bus_pass, 1, EmptyDict)
             IN  IF latest.error # "" THEN [error |-> latest.error, value |-> NoInfo]
                 ELSE LET current == CurrentPositions(bus_stop_codes, bus_stops,
                                         approach_response.current_bus_positions, 1, <<>>)
                      IN  IF current.error # ""
                          THEN [error |-> current.error, value |-> NoInfo]
                          ELSE [error |-> "",
                                value |-> [bus_stops |-> bus_stops,
                                           latest_passes |-> latest.value,
                                           current_positions |-> current.value]]

\* ApproachInfo._get_index_for_code; -1 stands for None
_get_index_for_code(info, code) ==
    index([i \in 1..Len(info.bus_stops) |-> info.bus_stops[i].bus_stop_code], code)

\* ApproachInfo.get_last_pass_time_for_code
get_last_pass_time_for_code(info, code) ==
    IF code \in DOMAIN info.latest_passes THEN info.latest_passes[code].passed_time ELSE None

\* ApproachInfo.get_bus_stop_for_code; NoBusStop stands for None
get_bus_stop_for_code(info, code) ==
    LET i == _get_index_for_code(info, code)
    IN  IF i = -1 THEN NoBusStop ELSE info.bus_stops[i + 1]

\* IsBefore with <= for <
IsBefore_OrEqual(previous_stop_index, target_stop_index) ==
    previous_stop_index <= target_stop_index

\* line 94: the position qualifies
IsBefore(previous_stop_index, target_stop_index) == previous_stop_index < target_stop_index

\* PositionsBefore inserting at the front instead of appending
RECURSIVE PositionsBefore_Prepend(_, _, _)
PositionsBefore_Prepend(info, target_stop_index, i) ==
    IF i > Len(info.current_positions) THEN <<>>
    ELSE LET position == info.current_positions[i]
             previous_stop_index == index(info.bus_stops, position.previous_stop)
         IN  PositionsBefore_Prepend(info, target_stop_index, i + 1)
             \o (IF IsBefore(previous_stop_index, target_stop_index)
                 THEN <<[n |-> target_stop_index - previous_stop_index,
                         position |-> position]>>
                 ELSE <<>>)

\* lines 91-96: the positions from the i-th on
RECURSIVE PositionsBefore(_, _, _)
PositionsBefore(info, target_stop_index, i) ==
    IF i > Len(info.current_positions) THEN <<>>
    ELSE LET position == info.current_positions[i]
             previous_stop_index == index(info.bus_stops, position.previous_stop)
         IN  (IF IsBefore(previous_stop_index, target_stop_index)
              THEN <<[n |-> target_stop_index - previous_stop_index, position |-> position]>>
              ELSE <<>>)
             \o PositionsBefore(info, target_stop_index, i + 1)

\* ApproachInfo.get_current_positions_before_code
get_current_positions_before_code(info, code) ==
    LET target_stop_index == _get_index_for_code(info, code)
    IN  IF target_stop_index = -1 THEN <<>>
        ELSE PositionsBefore(info, target_stop_index, 1)

----------------------------------------------------------------------------
(* The upstream responses the engine can receive *)

\* all sequences over S of length lo..hi
SeqsOf(S, lo, hi) == UNION {[1..n -> S] : n \in lo..hi}

NoRepeat(s, f(_)) == \A i, j \in 1..Len(s) : i # j => f(s[i]) # f(s[j])

\* KeitoResponse.busstops
StopSequences == SeqsOf(StopCodes, 0, MaxStops)

\* {car: time} of one feed key, in dict order: car codes are dict keys
CarEvents == [car_code : CarCodes, passed_time : PassedTimes]
CarCodeOf(e) == e.car_code
PassedCars == {cars \in SeqsOf(CarEvents, 1, Cardinality(CarCodes)) : NoRepeat(cars, CarCodeOf)}

\* {key: {car: time}} in dict order: feed keys are dict keys
FeedEntries == [key : FeedKeys, cars : PassedCars]
KeyOf(e) == e.key

RECURSIVE EventCount(_)
EventCount(feed) == IF feed = <<>> THEN 0 ELSE Len(Head(feed).cars) + EventCount(Tail(feed))

\* the feeds of exactly n events
FeedsOfCount ==
    [n \in 0..MaxEvents |->
        {feed : feed \in {f \in SeqsOf(FeedEntries, 0, n) :
                            NoRepeat(f, KeyOf) /\ EventCount(f) = n}}]

\* ApproachInfoResponse
ApproachResponses ==
    UNION {[latest_bus_pass : FeedsOfCount[n], current_bus_positions : FeedsOfCount[m]] :
            <<n, m>> \in {nm \in (0..MaxEvents) \X (0..MaxEvents) : nm[1] + nm[2] <= MaxEvents}}

NoApproach == [latest_bus_pass |-> <<>>, current_bus_positions |-> <<>>]

----------------------------------------------------------------------------
(* get_realtime_approach, one step per await *)

EngineInit ==
    /\ pc = "idle"
    /\ keito = <<>>
    /\ approach = NoApproach
    /\ result = NoInfo
    /\ error = ""
    /\ q_code = <<>>
    /\ q_positions = <<>>
    /\ issued = {}

\* line 143: the call starts and awaits client.get_keito
CallEngine ==
    /\ pc = "idle"
    /\ pc' = "get_keito"
    /\ issued' = {"get_keito"}
    /\ UNCHANGED <<keito, approach, result, error, q_code, q_positions>>
    /\ UNCHANGED <<station_vars, client_vars, tool_vars, cache_vars, server_vars,
                   resolve_vars, normalize_vars>>

\* lines 143-147: get_keito returns and client.get_realtime_approach is awaited
KeitoReturns ==
    /\ pc = "get_keito"
    /\ \E busstops \in StopSequences : keito' = busstops
    /\ pc' = "get_realtime_approach"
    /\ issued' = issued \cup {"get_realtime_approach"}
    /\ UNCHANGED <<approach, result, error, q_code, q_positions>>
    /\ UNCHANGED <<station_vars, client_vars, tool_vars, cache_vars, server_vars,
                   resolve_vars, normalize_vars>>

\* line 143: get_keito raises
KeitoFails ==
    /\ pc = "get_keito"
    /\ pc' = "failed"
    /\ error' = "HTTPStatusError"
    /\ UNCHANGED <<keito, approach, result, q_code, q_positions, issued>>
    /\ UNCHANGED <<station_vars, client_vars, tool_vars, cache_vars, server_vars,
                   resolve_vars, normalize_vars>>

\* lines 147-209: the feed arrives and the ApproachInfo is built, or a lookup raises
ApproachReturns ==
    /\ pc = "get_realtime_approach"
    /\ \E r \in ApproachResponses :
        LET info == ApproachInfo(keito, r)
        IN  /\ approach' = r
            /\ result' = info.value
            /\ error' = info.error
            /\ pc' = IF info.error = "" THEN "done" ELSE "failed"
    /\ UNCHANGED <<keito, q_code, q_positions, issued>>
    /\ UNCHANGED <<station_vars, client_vars, tool_vars, cache_vars, server_vars,
                   resolve_vars, normalize_vars>>

\* line 147: client.get_realtime_approach raises
ApproachFails ==
    /\ pc = "get_realtime_approach"
    /\ pc' = "failed"
    /\ error' = "HTTPStatusError"
    /\ UNCHANGED <<keito, approach, result, q_code, q_positions, issued>>
    /\ UNCHANGED <<station_vars, client_vars, tool_vars, cache_vars, server_vars,
                   resolve_vars, normalize_vars>>

\* a caller asks the returned ApproachInfo for the positions before a stop
QueryPositionsBefore ==
    /\ pc = "done"
    /\ q_code = <<>>
    /\ \E code \in StopCodes :
        /\ q_code' = code
        /\ q_positions' = get_current_positions_before_code(result, code)
    /\ UNCHANGED <<pc, keito, approach, result, error, issued>>
    /\ UNCHANGED <<station_vars, client_vars, tool_vars, cache_vars, server_vars,
                   resolve_vars, normalize_vars>>

----------------------------------------------------------------------------
(* mcp/tools.py: get_approach_for_station *)

\* line 302: 2**32 - 1 in the source; TLC's integers end at 2**31 - 1, which
\* stands for it: what matters is that no stop count reaches it
_MAX_SORT_KEY == 2147483647

StationNumbers == {1}
PoleCodes == {<<"P">>, <<"Q">>}
RouteCodes == {"1123001", "1123002"}

\* the route masters upstream serves, by route code
KeitoMaster ==
    [k \in RouteCodes |-> IF k = "1123001" THEN <<Code2P, Code1Q, Code1P>>
                          ELSE <<Code1P, Code2P>>]

\* BusStopResponse.poles: BusStopPole.code and BusStopPole.keitos
Poles == [code : PoleCodes, keitos : {k \in SeqsOf(RouteCodes, 1, MaxPairs) :
                                        NoRepeat(k, LAMBDA x : x)}]
CodeOf(pole) == pole.code

RECURSIVE PairCount(_)
PairCount(poles) == IF poles = <<>> THEN 0 ELSE Len(Head(poles).keitos) + PairCount(Tail(poles))

BusStopResponses ==
    {poles : poles \in {p \in SeqsOf(Poles, 0, MaxPairs) :
                            NoRepeat(p, CodeOf) /\ PairCount(p) <= MaxPairs}}

\* line 331-333: [(keito, pole.code) for pole in poles for keito in pole.keitos]
RECURSIVE RoutePoleList(_)
RoutePoleList(poles) ==
    IF poles = <<>> THEN <<>>
    ELSE [i \in 1..Len(Head(poles).keitos) |->
             [route_code |-> Head(poles).keitos[i], pole_code |-> Head(poles).code]]
         \o RoutePoleList(Tail(poles))

\* the live feeds met by the aggregator: every pass at the same time of day,
\* one car per key among the latest passes, one or two among the positions
OneTime(feed) ==
    \A i \in 1..Len(feed) : \A j \in 1..Len(feed[i].cars) :
        feed[i].cars[j].passed_time = Time21

\* one car per key
OneCar(feed) == \A i \in 1..Len(feed) : feed[i].cars[1].car_code = "NF 0001" /\ Len(feed[i].cars) = 1

\* the cars of a key are NF 0001, or NF 0001 then NF 0002
CarsInOrder(feed) ==
    \A i \in 1..Len(feed) :
        /\ feed[i].cars[1].car_code = "NF 0001"
        /\ Len(feed[i].cars) > 1 => feed[i].cars[2].car_code = "NF 0002"

StationFeeds ==
    {r \in ApproachResponses :
        /\ OneTime(r.latest_bus_pass) /\ OneCar(r.latest_bus_pass)
        /\ OneTime(r.current_bus_positions) /\ CarsInOrder(r.current_bus_positions)}

\* what one fanned-out get_realtime_approach(route_code) can end with: the
\* transport errors of its two fetches, and what ApproachInfo makes of a feed
EngineOutcomes ==
    [k \in RouteCodes |->
        {[error |-> "HTTPStatusError", value |-> NoInfo]}
        \cup {ApproachInfo(KeitoMaster[k], r) : r \in StationFeeds}]

\* line 348: f"{station_number:05}{pole_code}"
TargetCode(station_number, pole_code) == format05(station_number) \o pole_code

\* line 359: f"{n}停前を通過", the suffix written "T"
Location(n) == str(n) \o <<"T">>

\* lines 355-363: approaching_buses
ApproachingBuses(positions_before) ==
    [i \in 1..Len(positions_before) |->
        [location |-> Location(positions_before[i].n),
         previous_station_name |-> positions_before[i].position.previous_stop.station_name,
         pass_time |-> positions_before[i].position.passed_time]]

\* Min returning the greater of the two
Min_Greater(a, b) == IF a >= b THEN a ELSE b

\* line 356: min(sort_key, n)
Min(a, b) == IF a <= b THEN a ELSE b

\* lines 347, 355-356: sort_key = min(sort_key, n) over positions_before
RECURSIVE SortKey(_, _, _)
SortKey(sort_key, positions_before, i) ==
    IF i > Len(positions_before) THEN sort_key
    ELSE SortKey(Min(sort_key, positions_before[i].n), positions_before, i + 1)

\* NoActivity that filters nothing: every pair is emitted
NoActivity_Never(last_pass_time, approaching_buses) == FALSE

\* NoActivity skipping a pair as soon as one of the two is missing
NoActivity_Either(last_pass_time, approaching_buses) ==
    last_pass_time = None \/ Len(approaching_buses) = 0

\* line 367: the pair has no activity and is skipped
NoActivity(last_pass_time, approaching_buses) ==
    last_pass_time = None /\ Len(approaching_buses) = 0

\* lines 344-384: the loop over zip(route_codes, approach_infos) from the i-th
\* pair on; approaches is a list of (sort_key, ApproachForStationRoute)
RECURSIVE Approaches(_, _, _, _)
Approaches(station_number, pairs, approach_infos, i) ==
    IF i > Len(pairs) THEN <<>>
    ELSE LET approach_info == approach_infos[i]
             bus_stop_code == TargetCode(station_number, pairs[i].pole_code)
             approach_bus_stop == get_bus_stop_for_code(approach_info, bus_stop_code)
             positions_before == get_current_positions_before_code(approach_info,
                                                                   bus_stop_code)
             approaching_buses == ApproachingBuses(positions_before)
             last_pass_time == get_last_pass_time_for_code(approach_info, bus_stop_code)
         IN  (IF NoActivity(last_pass_time, approaching_buses) THEN <<>>
              ELSE <<[sort_key |-> SortKey(_MAX_SORT_KEY, positions_before, 1),
                      route |-> [route_code |-> pairs[i].route_code,
                                 last_pass_time |-> last_pass_time,
                                 pole |-> IF approach_bus_stop # NoBusStop
                                          THEN approach_bus_stop.pole ELSE UnknownPole,
                                 approaching_buses |-> approaching_buses]]>>)
             \o Approaches(station_number, pairs, approach_infos, i + 1)

\* Insert that leaves the list in the order it was built
Insert_Append(sorted, x) == sorted \o <<x>>

\* sorted(): the place of x in an already sorted list, after every element
\* whose key is not greater (the sort is stable)
RECURSIVE Insert(_, _)
Insert(sorted, x) ==
    IF sorted = <<>> THEN <<x>>
    ELSE IF Head(sorted).sort_key <= x.sort_key THEN <<Head(sorted)>> \o Insert(Tail(sorted), x)
    ELSE <<x>> \o sorted

\* line 386: sorted(approaches, key=itemgetter(0))
RECURSIVE Sorted(_)
Sorted(approaches) ==
    IF approaches = <<>> THEN <<>>
    ELSE Insert(Sorted(SubSeq(approaches, 1, Len(approaches) - 1)),
                approaches[Len(approaches)])

\* GatherException as with return_exceptions=True: nothing is raised
GatherException_Swallowed(raised) == ""

\* lines 337-342: asyncio.gather without return_exceptions hands the first
\* exception one of the calls raises to the awaiting tool
GatherException(raised) == raised

StationIdle ==
    /\ st_pc = "idle"
    /\ st_number = 0
    /\ route_codes = <<>>
    /\ tasks = <<>>
    /\ st_approaches = <<>>
    /\ st_routes = <<>>
    /\ st_error = ""

\* line 329: the tool is called and awaits client.get_bus_stop
CallStation ==
    /\ st_pc = "idle"
    /\ \E n \in StationNumbers : st_number' = n
    /\ st_pc' = "get_bus_stop"
    /\ UNCHANGED <<route_codes, tasks, st_approaches, st_routes, st_error>>
    /\ UNCHANGED <<engine_vars, client_vars, tool_vars, cache_vars, server_vars,
                   resolve_vars, normalize_vars>>

\* line 329: client.get_bus_stop raises
BusStopFails ==
    /\ st_pc = "get_bus_stop"
    /\ st_pc' = "failed"
    /\ st_error' = "HTTPStatusError"
    /\ UNCHANGED <<st_number, route_codes, tasks, st_approaches, st_routes>>
    /\ UNCHANGED <<engine_vars, client_vars, tool_vars, cache_vars, server_vars,
                   resolve_vars, normalize_vars>>

\* lines 329-342: the pole list arrives and one engine call per pair is started
BusStopReturns ==
    /\ st_pc = "get_bus_stop"
    /\ \E poles \in BusStopResponses :
        /\ route_codes' = RoutePoleList(poles)
        /\ tasks' = [i \in 1..Len(RoutePoleList(poles)) |->
                        [status |-> "pending", error |-> "", info |-> NoInfo]]
    /\ st_pc' = "gather"
    /\ UNCHANGED <<st_number, st_approaches, st_routes, st_error>>
    /\ UNCHANGED <<engine_vars, client_vars, tool_vars, cache_vars, server_vars,
                   resolve_vars, normalize_vars>>

\* lines 337-342: one of the fanned-out engine calls ends, in any order
TaskEnds(i) ==
    /\ st_pc = "gather"
    /\ tasks[i].status = "pending"
    /\ \E outcome \in EngineOutcomes[route_codes[i].route_code] :
        /\ tasks' = [tasks EXCEPT ![i] =
                        [status |-> IF outcome.error = "" THEN "returned" ELSE "raised",
                         error |-> outcome.error,
                         info |-> outcome.value]]
        /\ st_error' = IF st_error = "" THEN GatherException(outcome.error) ELSE st_error
    /\ UNCHANGED <<st_pc, st_number, route_codes, st_approaches, st_routes>>
    /\ UNCHANGED <<engine_vars, client_vars, tool_vars, cache_vars, server_vars,
                   resolve_vars, normalize_vars>>

\* line 337: the await of gather raises in the tool
GatherRaises ==
    /\ st_pc = "gather"
    /\ st_error # ""
    /\ st_pc' = "failed"
    /\ UNCHANGED <<st_number, route_codes, tasks, st_approaches, st_routes, st_error>>
    /\ UNCHANGED <<engine_vars, client_vars, tool_vars, cache_vars, server_vars,
                   resolve_vars, normalize_vars>>

\* lines 337-388: gather returns every result, the pairs are aggregated and sorted
GatherReturns ==
    /\ st_pc = "gather"
    /\ st_error = ""
    /\ \A i \in 1..Len(tasks) : tasks[i].status # "pending"
    /\ LET done == Approaches(st_number, route_codes,
                              [i \in 1..Len(tasks) |-> tasks[i].info], 1)
       IN  /\ st_approaches' = done
           /\ st_routes' = [i \in 1..Len(done) |-> Sorted(done)[i].route]
    /\ st_pc' = "done"
    /\ UNCHANGED <<st_number, route_codes, tasks, st_error>>
    /\ UNCHANGED <<engine_vars, client_vars, tool_vars, cache_vars, server_vars,
                   resolve_vars, normalize_vars>>

----------------------------------------------------------------------------
(* client.py: the gateway to the upstream site *)

\* texts are sequences of tokens; `x in text` is the presence of the token
in(x, text) == x \in Range(text)

StatusCodes == {200, 301, 404, 500}

\* the content-type header; <<>> is the default "" of headers.get
ContentTypes ==
    {<<"application/json">>, <<"text/html">>, <<"text/html", "charset=utf-8">>, <<>>}

\* response bodies: the payload of the endpoint, a payload in which a name
\* reads like the marker, a JSON document of another shape, the not-found
\* page of the site, another HTML page
Payload == <<"{", "data", "}">>
PayloadWithMarker == <<"{", "data", "404 NotFound", "}">>
OtherJson == <<"{", "}">>
NotFoundPage == <<"<html>", "404 NotFound", "</html>">>
OtherPage == <<"<html>", "maintenance", "</html>">>
Contents == {Payload, PayloadWithMarker, OtherJson, NotFoundPage, OtherPage}

Responses == [status_code : StatusCodes, content_type : ContentTypes, content : Contents]

\* the answers upstream would give to a first and to a second request
Upstreams == [1..2 -> Responses]

\* response.raise_for_status() raises: httpx raises HTTPStatusError unless
\* the status is 2xx
raise_for_status(response) == response.status_code \div 100 # 2

\* _check_404 that finds nothing
_check_404_Skipped(response) == FALSE

\* lines 214-229: _check_404 raises
_check_404(response) ==
    in("text/html", response.content_type) /\ in("404 NotFound", response.content)

\* Fetch that sends the request again after a failure status
Fetch_Retry(upstream) ==
    IF raise_for_status(upstream[1]) THEN [sent |-> 2, response |-> upstream[2]]
    ELSE [sent |-> 1, response |-> upstream[1]]

\* response = await self.client.get(url): one request, and its answer
Fetch(upstream) == [sent |-> 1, response |-> upstream[1]]

\* response.json() raises JSONDecodeError
json_fails(response) ==
    ~(Len(response.content) >= 2 /\ Head(response.content) = "{"
      /\ response.content[Len(response.content)] = "}")

\* model_validate raises ValidationError
model_validate_fails(response) == ~in("data", response.content)

\* response.json() and model_validate, the tail of every operation
Parse(response) ==
    IF json_fails(response) THEN "JSONDecodeError"
    ELSE IF model_validate_fails(response) THEN "ValidationError"
    ELSE "returned"

\* the body of the operations that check for the not-found page; the outcome
\* is "returned" or the class of the exception raised
Checked(response) ==
    IF raise_for_status(response) THEN "HTTPStatusError"
    ELSE IF _check_404(response) THEN "HTTPStatusError"
    ELSE Parse(response)

\* lines 120-122: the body of get_station_names
Unchecked(response) ==
    IF raise_for_status(response) THEN "HTTPStatusError"
    ELSE Parse(response)

ClientIdle ==
    /\ cl_op = ""
    /\ cl_upstream = <<>>
    /\ cl_sent = 0
    /\ cl_response = [status_code |-> 0, content_type |-> <<>>, content |-> <<>>]
    /\ cl_outcome = ""

\* lines 113-122
get_station_names ==
    /\ cl_op = ""
    /\ \E upstream \in Upstreams :
        /\ cl_upstream' = upstream
        /\ cl_sent' = Fetch(upstream).sent
        /\ cl_response' = Fetch(upstream).response
        /\ cl_outcome' = Unchecked(Fetch(upstream).response)
    /\ cl_op' = "get_station_names"
    /\ UNCHANGED <<engine_vars, station_vars, tool_vars, cache_vars, server_vars,
                   resolve_vars, normalize_vars>>

\* lines 124-140
get_station_diagram ==
    /\ cl_op = ""
    /\ \E upstream \in Upstreams :
        /\ cl_upstream' = upstream
        /\ cl_sent' = Fetch(upstream).sent
        /\ cl_response' = Fetch(upstream).response
        /\ cl_outcome' = Checked(Fetch(upstream).response)
    /\ cl_op' = "get_station_diagram"
    /\ UNCHANGED <<engine_vars, station_vars, tool_vars, cache_vars, server_vars,
                   resolve_vars, normalize_vars>>

\* lines 142-158
get_bus_stops ==
    /\ cl_op = ""
    /\ \E upstream \in Upstreams :
        /\ cl_upstream' = upstream
        /\ cl_sent' = Fetch(upstream).sent
        /\ cl_response' = Fetch(upstream).response
        /\ cl_outcome' = Checked(Fetch(upstream).response)
    /\ cl_op' = "get_bus_stops"
    /\ UNCHANGED <<engine_vars, station_vars, tool_vars, cache_vars, server_vars,
                   resolve_vars, normalize_vars>>

\* lines 160-177
get_keitos ==
    /\ cl_op = ""
    /\ \E upstream \in Upstreams :
        /\ cl_upstream' = upstream
        /\ cl_sent' = Fetch(upstream).sent
        /\ cl_response' = Fetch(upstream).response
        /\ cl_outcome' = Checked(Fetch(upstream).response)
    /\ cl_op' = "get_keitos"
    /\ UNCHANGED <<engine_vars, station_vars, tool_vars, cache_vars, server_vars,
                   resolve_vars, normalize_vars>>

\* lines 179-212: Client.get_realtime_approach
client_get_realtime_approach ==
    /\ cl_op = ""
    /\ \E upstream \in Upstreams :
        /\ cl_upstream' = upstream
        /\ cl_sent' = Fetch(upstream).sent
        /\ cl_response' = Fetch(upstream).response
        /\ cl_outcome' = Checked(Fetch(upstream).response)
    /\ cl_op' = "get_realtime_approach"
    /\ UNCHANGED <<engine_vars, station_vars, tool_vars, cache_vars, server_vars,
                   resolve_vars, normalize_vars>>


----------------------------------------------------------------------------
(* data.py: BaseData, and difflib as find_station_number uses it *)

\* a[i:i+k] of a Python string, i 0-based
Slice(a, i, k) == SubSeq(a, i + 1, i + k)

\* the blocks a[i:i+k] == b[j:j+k], k >= 1, inside a[alo:ahi] and b[blo:bhi]
MatchingBlocks(a, b, alo, ahi, blo, bhi) ==
    {m \in (alo..(ahi - 1)) \X (blo..(bhi - 1)) \X (1..(ahi - alo)) :
        /\ m[1] + m[3] <= ahi
        /\ m[2] + m[3] <= bhi
        /\ Slice(a, m[1], m[3]) = Slice(b, m[2], m[3])}

\* SequenceMatcher.find_longest_match: the longest block; of the longest the
\* one that starts earliest in a, and of those the one earliest in b
find_longest_match(a, b, alo, ahi, blo, bhi) ==
    LET blocks == MatchingBlocks(a, b, alo, ahi, blo, bhi)
    IN  IF blocks = {} THEN <<alo, blo, 0>>
        ELSE CHOOSE m \in blocks :
                \A o \in blocks :
                    \/ m[3] > o[3]
                    \/ m[3] = o[3] /\ m[1] < o[1]
                    \/ m[3] = o[3] /\ m[1] = o[1] /\ m[2] <= o[2]

\* SequenceMatcher.get_matching_blocks: the characters matched, the longest
\* block first and then the pieces to its left and to its right
RECURSIVE Matches(_, _, _, _, _, _)
Matches(a, b, alo, ahi, blo, bhi) ==
    LET m == find_longest_match(a, b, alo, ahi, blo, bhi)
    IN  IF m[3] = 0 THEN 0
        ELSE m[3]
             + (IF alo < m[1] /\ blo < m[2]
                THEN Matches(a, b, alo, m[1], blo, m[2]) ELSE 0)
             + (IF m[1] + m[3] < ahi /\ m[2] + m[3] < bhi
                THEN Matches(a, b, m[1] + m[3], ahi, m[2] + m[3], bhi) ELSE 0)

\* SequenceMatcher(a, b).ratio() = 2.0 * M / T, 1.0 for two empty strings, as
\* the fraction <<numerator, denominator>>
ratio(a, b) ==
    IF Len(a) + Len(b) = 0 THEN <<1, 1>>
    ELSE <<2 * Matches(a, b, 0, Len(a), 0, Len(b)), Len(a) + Len(b)>>

\* x >= y and x > y for fractions with positive denominators
frac_ge(x, y) == x[1] * y[2] >= y[1] * x[2]
frac_gt(x, y) == x[1] * y[2] > y[1] * x[2]

\* (score, x) > (score, y), the order of the tuples get_close_matches ranks
scored_gt(word, x, y) ==
    \/ frac_gt(ratio(x, word), ratio(y, word))
    \/ /\ ratio(x, word)[1] * ratio(y, word)[2] = ratio(y, word)[1] * ratio(x, word)[2]
       /\ x # y /\ str_ge(x, y)

\* get_close_matches that returns the first possibility at or above the cutoff
get_close_matches_FirstAbove(word, possibilities, cutoff) ==
    LET above == {i \in 1..Len(possibilities) :
                    frac_ge(ratio(possibilities[i], word), cutoff)}
    IN  IF above = {} THEN <<>>
        ELSE <<possibilities[CHOOSE i \in above : \A j \in above : i <= j]>>

\* difflib.get_close_matches(word, possibilities, n=1, cutoff): the
\* possibilities x with SequenceMatcher(x, word).ratio() >= cutoff, and of
\* these the greatest (score, x)
get_close_matches(word, possibilities, cutoff) ==
    LET scored == {x \in Range(possibilities) : frac_ge(ratio(x, word), cutoff)}
    IN  IF scored = {} THEN <<>>
        ELSE <<CHOOSE x \in scored : \A y \in scored \ {x} : scored_gt(word, x, y)>>

\* the characters of station names
NameChars == {"a", "b"}
StationNames == SeqsOf(NameChars, 0, MaxNameLen)
StationNumberValues == {0, 1}

\* StationNamesResponse.root: an entry per name, in the order of the dict
StationEntries == [name : StationNames, number : StationNumberValues]
NameOf(e) == e.name
StationTables ==
    {t : t \in {u \in SeqsOf(StationEntries, 0, MaxStations) : NoRepeat(u, NameOf)}}

\* the None of an int | None
NoNumber == -1
\* the None of a str | None
NoName == <<"None">>

\* line 34 and dict[name]
_station_number_by_name(stations, name) ==
    stations[CHOOSE i \in 1..Len(stations) : stations[i].name = name].number

\* lines 35-37 and dict[num]: {num: name for name, num in stations.root.items()};
\* a later entry replaces an earlier one of the same number
_station_name_by_number(stations, num) ==
    stations[CHOOSE i \in 1..Len(stations) :
                /\ stations[i].number = num
                /\ \A j \in (i + 1)..Len(stations) : stations[j].number # num].name

\* lines 43-45: BaseData.get_station_number
BaseData_get_station_number(stations, name) ==
    IF \E i \in 1..Len(stations) : stations[i].name = name
    THEN _station_number_by_name(stations, name) ELSE NoNumber

\* lines 47-49: BaseData.get_station_name
BaseData_get_station_name(stations, number) ==
    IF \E i \in 1..Len(stations) : stations[i].number = number
    THEN _station_name_by_number(stations, number) ELSE NoName

\* lines 51-72: BaseData.find_station_number
find_station_number(stations, name, cutoff) ==
    LET closest_matches ==
            get_close_matches(name, [i \in 1..Len(stations) |-> stations[i].name], cutoff)
    IN  IF closest_matches # <<>>
        THEN _station_number_by_name(stations, closest_matches[1])
        ELSE NoNumber

----------------------------------------------------------------------------
(* mcp/tools.py: get_station_number and get_timetable *)

\* bool(x) of an int | None
Truthy(number) == number # NoNumber /\ number # 0

\* line 179: cutoff=0.6
Cutoff == <<6, 10>>

NoCall == [tool |-> "", station_name |-> <<>>, station_number |-> NoNumber, cutoff |-> Cutoff]
NoValue == [station_name |-> NoName, station_number |-> NoNumber]

\* lines 152-200: the body of get_station_number
StationNumberResponse(stations, station_name) ==
    LET station_number == BaseData_get_station_number(stations, station_name)
        closest_station_number == find_station_number(stations, station_name, Cutoff)
        closest_station == BaseData_get_station_name(stations, closest_station_number)
    IN  IF Truthy(station_number)
        THEN [error |-> <<>>,
              value |-> [station_name |-> station_name, station_number |-> station_number]]
        ELSE IF Truthy(closest_station_number)
        THEN IF closest_station = NoName
             THEN [error |-> <<"Inconsistent base data: station number has no name">>,
                   value |-> NoValue]
             ELSE [error |-> <<>>,
                   value |-> [station_name |-> closest_station,
                              station_number |-> closest_station_number]]
        ELSE [error |-> <<"Station not found: ", station_name>>, value |-> NoValue]

ToolIdle ==
    /\ tool_pc = "boot"
    /\ base_stations = <<>>
    /\ tool_call = NoCall
    /\ tool_value = NoValue
    /\ tool_error = <<>>
    /\ tool_requests = 0

\* data.py lines 19-23: the station table is fetched and BaseData built
init_base_data ==
    /\ tool_pc = "boot"
    /\ \E stations \in StationTables : base_stations' = stations
    /\ tool_pc' = "ready"
    /\ UNCHANGED <<tool_call, tool_value, tool_error, tool_requests>>
    /\ UNCHANGED <<engine_vars, station_vars, client_vars, cache_vars, server_vars,
                   resolve_vars, normalize_vars>>

\* lines 152-200
get_station_number ==
    /\ tool_pc = "ready"
    /\ \E station_name \in StationNames :
        LET response == StationNumberResponse(base_stations, station_name)
        IN  /\ tool_call' = [NoCall EXCEPT !.tool = "get_station_number",
                                           !.station_name = station_name]
            /\ tool_value' = response.value
            /\ tool_error' = response.error
            /\ tool_pc' = IF response.error = <<>> THEN "returned" ELSE "raised"
    /\ UNCHANGED <<base_stations, tool_requests>>
    /\ UNCHANGED <<engine_vars, station_vars, client_vars, cache_vars, server_vars,
                   resolve_vars, normalize_vars>>

----------------------------------------------------------------------------
(* mcp/tools.py: the route master cache and get_approach *)

Tasks == 1..MaxTasks

\* the answers upstream may give for the master of a route
MasterVersions == {"v1", "v2"}
NoMaster == [keito |-> "", version |-> ""]
NoFeed == -1

NoCaller ==
    [pc |-> "idle", route_code |-> "", route_master |-> NoMaster,
     approach_info |-> NoFeed, started |-> 0]

\* CachePut that keeps one master for all route codes
CachePut_OneSlot(cache, route_code, route_response) ==
    [k \in DOMAIN cache \cup {route_code} |-> route_response]

\* line 200: _cached_route_masters[route_code] = route_response
CachePut(cache, route_code, route_response) == Put(cache, route_code, route_response)

\* _get_realtime_approach that answers with the feed of the process start
_get_realtime_approach_Stale(upstream_feed) == 0

\* lines 204-224: _get_realtime_approach fetches; what it returns is the feed
\* upstream serves when it answers
_get_realtime_approach(upstream_feed) == upstream_feed

CacheIdle ==
    /\ _cached_route_masters = EmptyDict
    /\ callers = [t \in Tasks |-> NoCaller]
    /\ calls = 0
    /\ feed_now = 0
    /\ keito_served = [k \in RouteCodes |-> {}]
    /\ keito_fetches = [k \in RouteCodes |-> 0]
    /\ keito_callers = [k \in RouteCodes |-> 0]
    /\ feed_fetches = 0

\* lines 420-436 and 193-199: a task calls get_approach; _get_route_master
\* returns the cached master at once, or sends client.get_keitos and waits
CallApproach(t) ==
    /\ callers[t].pc \in {"idle", "done", "failed"}
    /\ calls < MaxCalls
    /\ calls' = calls + 1
    /\ \E route_code \in RouteCodes :
        /\ keito_callers' = [keito_callers EXCEPT ![route_code] = @ + 1]
        /\ IF route_code \in DOMAIN _cached_route_masters
           THEN /\ callers' = [callers EXCEPT ![t] =
                      [pc |-> "get_realtime_approach", route_code |-> route_code,
                       route_master |-> _cached_route_masters[route_code],
                       approach_info |-> NoFeed, started |-> feed_now]]
                /\ UNCHANGED keito_fetches
           ELSE /\ callers' = [callers EXCEPT ![t] =
                      [pc |-> "get_keitos", route_code |-> route_code,
                       route_master |-> NoMaster,
                       approach_info |-> NoFeed, started |-> feed_now]]
                /\ keito_fetches' = [keito_fetches EXCEPT ![route_code] = @ + 1]
    /\ UNCHANGED <<_cached_route_masters, feed_now, keito_served, feed_fetches>>
    /\ UNCHANGED <<engine_vars, station_vars, client_vars, tool_vars, server_vars,
                   resolve_vars, normalize_vars>>

\* lines 199-201: client.get_keitos answers; the master is stored and the
\* stored entry returned
RouteMasterArrives(t) ==
    /\ callers[t].pc = "get_keitos"
    /\ \E version \in MasterVersions :
        LET route_code == callers[t].route_code
            route_response == [keito |-> route_code, version |-> version]
            stored == CachePut(_cached_route_masters, route_code, route_response)
        IN  /\ keito_served' = [keito_served EXCEPT ![route_code] = @ \cup {route_response}]
            /\ _cached_route_masters' = stored
            /\ callers' = [callers EXCEPT ![t].pc = "get_realtime_approach",
                                          ![t].route_master = stored[route_code]]
    /\ UNCHANGED <<calls, feed_now, keito_fetches, keito_callers, feed_fetches>>
    /\ UNCHANGED <<engine_vars, station_vars, client_vars, tool_vars, server_vars,
                   resolve_vars, normalize_vars>>

\* line 199: client.get_keitos raises; nothing is stored
RouteMasterFails(t) ==
    /\ callers[t].pc = "get_keitos"
    /\ callers' = [callers EXCEPT ![t].pc = "failed"]
    /\ UNCHANGED <<_cached_route_masters, calls, feed_now, keito_served, keito_fetches,
                   keito_callers, feed_fetches>>
    /\ UNCHANGED <<engine_vars, station_vars, client_vars, tool_vars, server_vars,
                   resolve_vars, normalize_vars>>

\* lines 437-472: the live feed arrives and get_approach returns
LiveFeedArrives(t) ==
    /\ callers[t].pc = "get_realtime_approach"
    /\ feed_fetches' = feed_fetches + 1
    /\ callers' = [callers EXCEPT ![t].pc = "done",
                                  ![t].approach_info = _get_realtime_approach(feed_now)]
    /\ UNCHANGED <<_cached_route_masters, calls, feed_now, keito_served, keito_fetches,
                   keito_callers>>
    /\ UNCHANGED <<engine_vars, station_vars, client_vars, tool_vars, server_vars,
                   resolve_vars, normalize_vars>>

\* line 437: client.get_realtime_approach raises
LiveFeedFails(t) ==
    /\ callers[t].pc = "get_realtime_approach"
    /\ callers' = [callers EXCEPT ![t].pc = "failed"]
    /\ UNCHANGED <<_cached_route_masters, calls, feed_now, keito_served, keito_fetches,
                   keito_callers, feed_fetches>>
    /\ UNCHANGED <<engine_vars, station_vars, client_vars, tool_vars, server_vars,
                   resolve_vars, normalize_vars>>

\* upstream: the buses move on and the live feed changes
FeedChanges ==
    /\ feed_now < MaxTicks
    /\ feed_now' = feed_now + 1
    /\ UNCHANGED <<_cached_route_masters, callers, calls, keito_served, keito_fetches,
                   keito_callers, feed_fetches>>
    /\ UNCHANGED <<engine_vars, station_vars, client_vars, tool_vars, server_vars,
                   resolve_vars, normalize_vars>>

----------------------------------------------------------------------------
(* mcp/server.py: the lifespan of the server and its shared Client *)

GatewayOps ==
    {"get_station_names", "get_station_diagram", "get_bus_stops", "get_keitos",
     "get_realtime_approach"}

NoRequest == [op |-> "", client |-> "none", outcome |-> ""]

\* __aexit__ that closes on the normal exit only
__aexit___OnReturnOnly(exc) == IF exc = "" THEN "closed" ELSE "open"

\* client.py lines 100-111 under `async with`: __aexit__ awaits close()
\* whatever exception, if any, leaves the block
__aexit__(exc) == "closed"

\* await self.client.get(url) on the shared client: httpx refuses to send once
\* the client is closed and raises RuntimeError
Send(client, answer) ==
    IF client = "closed" THEN [outcome |-> "RuntimeError", sent |-> 0]
    ELSE [outcome |-> answer, sent |-> 1]

ServerIdle ==
    /\ ls_pc = "start"
    /\ bus_client = "none"
    /\ ls_created = 0
    /\ ls_exit = ""
    /\ ls_sent = 0
    /\ ls_sent_closed = 0
    /\ ls_last = NoRequest

\* lines 70-72: async with Client(...) as bus_client
EnterLifespan ==
    /\ ls_pc = "start"
    /\ bus_client' = "open"
    /\ ls_created' = ls_created + 1
    /\ ls_pc' = "init_base_data"
    /\ UNCHANGED <<ls_exit, ls_sent, ls_sent_closed, ls_last>>
    /\ UNCHANGED <<engine_vars, station_vars, client_vars, tool_vars, cache_vars,
                   resolve_vars, normalize_vars>>

\* lines 74-77: init_base_data returns and the context is yielded
InitBaseDataReturns ==
    /\ ls_pc = "init_base_data"
    /\ ls_pc' = "serving"
    /\ UNCHANGED <<bus_client, ls_created, ls_exit, ls_sent, ls_sent_closed, ls_last>>
    /\ UNCHANGED <<engine_vars, station_vars, client_vars, tool_vars, cache_vars,
                   resolve_vars, normalize_vars>>

\* line 74: init_base_data raises and the exception leaves the async with
InitBaseDataFails ==
    /\ ls_pc = "init_base_data"
    /\ bus_client' = __aexit__("HTTPStatusError")
    /\ ls_exit' = "init_base_data raised"
    /\ ls_pc' = "exited"
    /\ UNCHANGED <<ls_created, ls_sent, ls_sent_closed, ls_last>>
    /\ UNCHANGED <<engine_vars, station_vars, client_vars, tool_vars, cache_vars,
                   resolve_vars, normalize_vars>>

\* lines 77-78: the server shuts down and the generator resumes after yield
ServerReturns ==
    /\ ls_pc = "serving"
    /\ bus_client' = __aexit__("")
    /\ ls_exit' = "returned"
    /\ ls_pc' = "exited"
    /\ UNCHANGED <<ls_created, ls_sent, ls_sent_closed, ls_last>>
    /\ UNCHANGED <<engine_vars, station_vars, client_vars, tool_vars, cache_vars,
                   resolve_vars, normalize_vars>>

\* line 77: the server body raises and the exception is thrown in at the yield
ServerRaises ==
    /\ ls_pc = "serving"
    /\ bus_client' = __aexit__("Exception")
    /\ ls_exit' = "server raised"
    /\ ls_pc' = "exited"
    /\ UNCHANGED <<ls_created, ls_sent, ls_sent_closed, ls_last>>
    /\ UNCHANGED <<engine_vars, station_vars, client_vars, tool_vars, cache_vars,
                   resolve_vars, normalize_vars>>

\* client.py lines 113-212: a holder of the shared client calls a gateway
\* operation, while the server runs or after the scope was left
UseClient ==
    /\ ls_pc \in {"serving", "exited"}
    /\ ls_sent + ls_sent_closed < MaxRequests
    /\ \E op \in GatewayOps, answer \in {"returned", "HTTPStatusError"} :
        LET sending == Send(bus_client, answer)
        IN  /\ ls_last' = [op |-> op, client |-> bus_client, outcome |-> sending.outcome]
            /\ ls_sent' = ls_sent + sending.sent
            /\ ls_sent_closed' = ls_sent_closed
                                    + (IF bus_client = "closed" THEN sending.sent ELSE 0)
    /\ UNCHANGED <<ls_pc, bus_client, ls_created, ls_exit>>
    /\ UNCHANGED <<engine_vars, station_vars, client_vars, tool_vars, cache_vars,
                   resolve_vars, normalize_vars>>

----------------------------------------------------------------------------
(* approach.py: _resolve_bus_stop on the codes a route master can hold *)

\* KeitoResponse.busstops is list[str]: nothing validates a code before
\* _resolve_bus_stop.  Besides the codes of the fixtures: the empty code, a
\* code of four digits, a code with a letter among its first five characters,
\* a code of five zeros, a code with a superscript digit, a code of exactly
\* five digits, a code unknown to both tables, and codes whose number has no
\* leading or only inner zeros.
RawCodes ==
    StopCodes \cup
    {<<>>,
     <<"0", "0", "0", "1">>,
     <<"0", "0", "0", "a", "1", "P">>,
     <<"0", "0", "0", "0", "0", "P">>,
     <<"0", "0", "0", "0", "sup2", "P">>,
     <<"0", "0", "0", "0", "3">>,
     <<"0", "0", "0", "0", "2", "Q">>,
     <<"1", "2", "3", "4", "5", "P">>,
     <<"0", "1", "0", "2", "0", "P">>}

\* the codes of the route masters get_realtime_approach meets: two of the
\* fixtures, the code of four digits and the code with a letter
RawRouteCodes ==
    {Code1P, Code2P, <<"0", "0", "0", "1">>, <<"0", "0", "0", "a", "1", "P">>}

\* KeitoResponse.busstops as upstream sends it
RawStopSequences == SeqsOf(RawRouteCodes, 0, MaxRoute)

NoResolution == [error |-> "", value |-> NoBusStop]

ResolveIdle ==
    /\ rs_pc = "idle"
    /\ rs_code = <<>>
    /\ rs_stop = NoResolution
    /\ rs_again = NoResolution

\* lines 99-112: _resolve_bus_stop(base_data, bus_stop_code) is called
ResolveBusStop ==
    /\ rs_pc = "idle"
    /\ pc = "idle"
    /\ \E bus_stop_code \in RawCodes :
        /\ rs_code' = bus_stop_code
        /\ rs_stop' = _resolve_bus_stop(bus_stop_code)
    /\ rs_pc' = "resolved"
    /\ UNCHANGED rs_again
    /\ UNCHANGED <<engine_vars, station_vars, client_vars, tool_vars, cache_vars, server_vars,
                   normalize_vars>>

\* lines 99-112: the same code is resolved once more
ResolveAgain ==
    /\ rs_pc = "resolved"
    /\ rs_again' = _resolve_bus_stop(rs_code)
    /\ rs_pc' = "again"
    /\ UNCHANGED <<rs_code, rs_stop>>
    /\ UNCHANGED <<engine_vars, station_vars, client_vars, tool_vars, cache_vars, server_vars,
                   normalize_vars>>

\* lines 143-147 of get_realtime_approach: get_keito returns a route master
\* with whatever codes upstream holds
KeitoReturnsRaw ==
    /\ pc = "get_keito"
    /\ rs_pc = "idle"
    /\ \E busstops \in RawStopSequences : keito' = busstops
    /\ pc' = "get_realtime_approach"
    /\ issued' = issued \cup {"get_realtime_approach"}
    /\ UNCHANGED <<approach, result, error, q_code, q_positions>>
    /\ UNCHANGED <<station_vars, client_vars, tool_vars, cache_vars, server_vars,
                   resolve_vars, normalize_vars>>

----------------------------------------------------------------------------
(* approach.py: _normalize_route_name *)

\* One character of a route name is one string: "fw1" stands for U+FF11
\* FULLWIDTH DIGIT ONE, "fwC" for U+FF23, "fw-" for U+FF0D FULLWIDTH
\* HYPHEN-MINUS, "fwA" for U+FF21, "fwc" for U+FF43, "sakae" for the kanji
\* U+6804.

\* line 116: the first argument of str.maketrans
FullWidthChars ==
    <<"fw1", "fw2", "fw3", "fw4", "fw5", "fw6", "fw7", "fw8", "fw9", "fw0", "fwC", "fw-">>

\* line 117: the second argument of str.maketrans
HalfWidthChars == <<"1", "2", "3", "4", "5", "6", "7", "8", "9", "0", "C", "-">>

\* str.maketrans(x, y): the dict of zip(x, y), a repeated key keeps its last value
maketrans(x, y) ==
    [c \in Range(x) |->
        y[CHOOSE i \in 1..Len(x) : x[i] = c /\ \A j \in (i + 1)..Len(x) : x[j] # c]]

\* the table paired one place off: "fw1" with "0", "fw2" with "1", ...
_ROUTE_NAME_TRANSLATION_TABLE_Misaligned ==
    maketrans(FullWidthChars,
              <<"0", "1", "2", "3", "4", "5", "6", "7", "8", "9", "C", "-">>)

\* lines 115-118
_ROUTE_NAME_TRANSLATION_TABLE == maketrans(FullWidthChars, HalfWidthChars)

\* str.translate(table) for a table of single characters
translate(s, table) ==
    [i \in 1..Len(s) |-> IF s[i] \in DOMAIN table THEN table[s[i]] ELSE s[i]]

\* lines 121-123
_normalize_route_name(name) == translate(name, _ROUTE_NAME_TRANSLATION_TABLE)

\* the characters route names are drawn from: the mapped ones, their images,
\* and four that the table does not hold
RouteNameChars ==
    Range(FullWidthChars) \cup Range(HalfWidthChars) \cup {"fwA", "fwc", "c", "sakae"}

\* KeitoResponse.name
RouteNames == SeqsOf(RouteNameChars, 0, MaxRouteNameLen)

NormalizeIdle ==
    /\ rn_pc = "idle"
    /\ rn_name = <<>>
    /\ rn_route = <<>>
    /\ rn_again = <<>>

\* line 204: route=_normalize_route_name(keito.name)
NormalizeRouteName ==
    /\ rn_pc = "idle"
    /\ \E name \in RouteNames :
        /\ rn_name' = name
        /\ rn_route' = _normalize_route_name(name)
    /\ rn_pc' = "normalized"
    /\ UNCHANGED rn_again
    /\ UNCHANGED <<engine_vars, station_vars, client_vars, tool_vars, cache_vars, server_vars,
                   resolve_vars>>

\* lines 121-123: the normalized name is normalized once more
NormalizeAgain ==
    /\ rn_pc = "normalized"
    /\ rn_again' = _normalize_route_name(rn_route)
    /\ rn_pc' = "again"
    /\ UNCHANGED <<rn_name, rn_route>>
    /\ UNCHANGED <<engine_vars, station_vars, client_vars, tool_vars, cache_vars, server_vars,
                   resolve_vars>>

----------------------------------------------------------------------------
(* mcp/tools.py: get_timetable *)

\* the station numbers a timetable is asked for
TimetableNumbers == StationNumberValues \cup {3}

\* IsNone that lets every station number through
IsNone_Never(station_name) == FALSE

\* line 222: station_name is None
IsNone(station_name) == station_name = NoName

\* what client.get_station_diagram ends with
DiagramOutcomes == {"returned", "HTTPStatusError"}

\* lines 203-257: the body of get_timetable, given how the diagram fetch ends
TimeTableResponse(stations, station_number, diagram) ==
    LET station_name == BaseData_get_station_name(stations, station_number)
    IN  IF IsNone(station_name)
        THEN [error |-> <<"Station number not found: ", str(station_number)>>,
              value |-> NoValue, requests |-> 0]
        ELSE IF diagram # "returned"
        THEN [error |-> <<diagram>>, value |-> NoValue, requests |-> 1]
        ELSE [error |-> <<>>,
              value |-> [station_name |-> station_name, station_number |-> station_number],
              requests |-> 1]

\* lines 203-257
get_timetable ==
    /\ tool_pc = "ready"
    /\ \E station_number \in TimetableNumbers, diagram \in DiagramOutcomes :
        LET response == TimeTableResponse(base_stations, station_number, diagram)
        IN  /\ tool_call' = [NoCall EXCEPT !.tool = "get_timetable",
                                           !.station_number = station_number]
            /\ tool_value' = response.value
            /\ tool_error' = response.error
            /\ tool_requests' = response.requests
            /\ tool_pc' = IF response.error = <<>> THEN "returned" ELSE "raised"
    /\ UNCHANGED base_stations
    /\ UNCHANGED <<engine_vars, station_vars, client_vars, cache_vars, server_vars,
                   resolve_vars, normalize_vars>>

----------------------------------------------------------------------------
(* data.py: the lookups of BaseData called directly *)

\* the cutoff arguments of find_station_number, as fractions: -0.1, 0.0,
\* 0.6 (the default), 1.0 and 1.5
Cutoffs == {<<-1, 10>>, <<0, 1>>, <<6, 10>>, <<1, 1>>, <<15, 10>>}

\* the names the lookups are called with
QueryNames == {<<>>, <<"a">>, <<"b">>, <<"a", "b">>}

\* difflib.get_close_matches: `if not 0.0 <= cutoff <= 1.0: raise ValueError`
cutoff_in_range(cutoff) == cutoff[1] >= 0 /\ cutoff[1] <= cutoff[2]

\* lines 43-49: get_station_name(get_station_number(name))
StationNameRoundTrip ==
    /\ tool_pc = "ready"
    /\ \E name \in QueryNames :
        LET number == BaseData_get_station_number(base_stations, name)
        IN  /\ tool_call' = [NoCall EXCEPT !.tool = "name_round_trip", !.station_name = name]
            /\ tool_value' = [station_name |-> BaseData_get_station_name(base_stations, number),
                              station_number |-> number]
    /\ tool_error' = <<>>
    /\ tool_pc' = "returned"
    /\ UNCHANGED <<base_stations, tool_requests>>
    /\ UNCHANGED <<engine_vars, station_vars, client_vars, cache_vars, server_vars,
                   resolve_vars, normalize_vars>>

\* lines 43-49: get_station_number(get_station_name(number)); dict.get(None)
\* of the inner miss is None
StationNumberRoundTrip ==
    /\ tool_pc = "ready"
    /\ \E number \in TimetableNumbers :
        LET name == BaseData_get_station_name(base_stations, number)
        IN  /\ tool_call' = [NoCall EXCEPT !.tool = "number_round_trip",
                                           !.station_number = number]
            /\ tool_value' = [station_name |-> name,
                              station_number |->
                                  IF name = NoName THEN NoNumber
                                  ELSE BaseData_get_station_number(base_stations, name)]
    /\ tool_error' = <<>>
    /\ tool_pc' = "returned"
    /\ UNCHANGED <<base_stations, tool_requests>>
    /\ UNCHANGED <<engine_vars, station_vars, client_vars, cache_vars, server_vars,
                   resolve_vars, normalize_vars>>

\* lines 51-72: find_station_number(name, cutoff=cutoff) is called
FindStationNumber ==
    /\ tool_pc = "ready"
    /\ \E name \in QueryNames, cutoff \in Cutoffs :
        /\ tool_call' = [NoCall EXCEPT !.tool = "find_station_number",
                                       !.station_name = name, !.cutoff = cutoff]
        /\ IF cutoff_in_range(cutoff)
           THEN /\ tool_value' = [station_name |-> NoName,
                                  station_number |->
                                      find_station_number(base_stations, name, cutoff)]
                /\ tool_error' = <<>>
                /\ tool_pc' = "returned"
           ELSE /\ tool_value' = NoValue
                /\ tool_error' = <<"ValueError">>
                /\ tool_pc' = "raised"
    /\ UNCHANGED <<base_stations, tool_requests>>
    /\ UNCHANGED <<engine_vars, station_vars, client_vars, cache_vars, server_vars,
                   resolve_vars, normalize_vars>>

----------------------------------------------------------------------------
(* Specifications *)

Init ==
    /\ EngineInit
    /\ StationIdle
    /\ ClientIdle
    /\ ToolIdle
    /\ CacheIdle
    /\ ServerIdle
    /\ ResolveIdle
    /\ NormalizeIdle

Next ==
    \/ CallEngine
    \/ KeitoReturns
    \/ KeitoFails
    \/ ApproachReturns
    \/ ApproachFails
    \/ QueryPositionsBefore

\* the approach resolution engine and the queries on its result
Spec == Init /\ [][Next]_vars

StationNext ==
    \/ CallStation
    \/ BusStopFails
    \/ BusStopReturns
    \/ \E i \in 1..Len(tasks) : TaskEnds(i)
    \/ GatherRaises
    \/ GatherReturns

\* the station approach aggregator
SpecStation == Init /\ [][StationNext]_vars

ClientNext ==
    \/ get_station_names
    \/ get_station_diagram
    \/ get_bus_stops
    \/ get_keitos
    \/ client_get_realtime_approach

\* one call of a gateway operation and the response it meets
SpecClient == Init /\ [][ClientNext]_vars

ToolNext ==
    \/ init_base_data
    \/ get_station_number
    \/ get_timetable

\* the tools that answer from the reference data
SpecTools == Init /\ [][ToolNext]_vars

CacheNext ==
    \/ \E t \in Tasks : CallApproach(t)
    \/ \E t \in Tasks : RouteMasterArrives(t)
    \/ \E t \in Tasks : RouteMasterFails(t)
    \/ \E t \in Tasks : LiveFeedArrives(t)
    \/ \E t \in Tasks : LiveFeedFails(t)
    \/ FeedChanges

\* concurrent invocations of get_approach over the shared route master cache
SpecCache == Init /\ [][CacheNext]_vars

ServerNext ==
    \/ EnterLifespan
    \/ InitBaseDataReturns
    \/ InitBaseDataFails
    \/ ServerReturns
    \/ ServerRaises
    \/ UseClient

\* one lifespan of the server
SpecServer == Init /\ [][ServerNext]_vars

ResolveNext ==
    \/ ResolveBusStop
    \/ ResolveAgain
    \/ CallEngine
    \/ KeitoReturnsRaw
    \/ KeitoFails
    \/ ApproachReturns
    \/ ApproachFails

\* _resolve_bus_stop alone and inside get_realtime_approach, one call at a time
SpecResolve == Init /\ [][ResolveNext]_vars

NormalizeNext ==
    \/ NormalizeRouteName
    \/ NormalizeAgain

\* _normalize_route_name
SpecNormalize == Init /\ [][NormalizeNext]_vars

DataNext ==
    \/ init_base_data
    \/ StationNameRoundTrip
    \/ StationNumberRoundTrip
    \/ FindStationNumber

\* the lookups of BaseData on one snapshot of the station table
SpecData == Init /\ [][DataNext]_vars

----------------------------------------------------------------------------
(* Properties of get_realtime_approach *)

\* the (key, car) events of a feed, as <<place of the key, place of the car>>
Events(feed) == UNION {{<<i, j>> : j \in 1..Len(feed[i].cars)} : i \in 1..Len(feed)}

\* the 0-based place of a feed key's stop in the stop sequence, -1 when absent
NextStopIndex(key) == index(keito, replace_slash(key))

\* the events that have a previous stop
Kept(feed) == {e \in Events(feed) : NextStopIndex(feed[e[1]].key) >= 1}

\* the events whose next stop is the first stop of the route
AtFirstStop(feed) == {e \in Events(feed) : NextStopIndex(feed[e[1]].key) = 0}

\* the stop before the stop of a feed key
PreviousStopId(key) == keito[NextStopIndex(key)]

CarOf(feed, e) == feed[e[1]].cars[e[2]].car_code
TimeOf(feed, e) == feed[e[1]].cars[e[2]].passed_time

\* a record made from event e of feed
MadeFrom(record, feed, e) ==
    /\ record.car_code = CarOf(feed, e)
    /\ record.passed_time = TimeOf(feed, e)
    /\ record.next_stop.bus_stop_code = replace_slash(feed[e[1]].key)
    /\ record.previous_stop.bus_stop_code = PreviousStopId(feed[e[1]].key)

LatestRecords == {result.latest_passes[c] : c \in DOMAIN result.latest_passes}
CurrentRecords == {result.current_positions[i] : i \in 1..Len(result.current_positions)}

\* C1: for every previous stop that receives latest-pass updates, the record
\* retained in latest_passes is one of those updates and no update for that
\* stop has a greater passed_time, in whatever order the feed lists them.
C1_LatestPassIsGreatest ==
    pc = "done" =>
        LET feed == approach.latest_bus_pass
        IN  \A e \in Kept(feed) :
                LET previous_stop_id == PreviousStopId(feed[e[1]].key)
                IN  /\ previous_stop_id \in DOMAIN result.latest_passes
                    /\ str_ge(result.latest_passes[previous_stop_id].passed_time,
                              TimeOf(feed, e))
                    /\ \E e2 \in Kept(feed) :
                          MadeFrom(result.latest_passes[previous_stop_id], feed, e2)

\* C1 witness: one key reports the 21:00:00 pass before the 20:00:00 pass of
\* the same previous stop, and the call returned
C1_Witness ==
    /\ pc = "done"
    /\ \E e \in Kept(approach.latest_bus_pass) :
        /\ e[2] = 1
        /\ TimeOf(approach.latest_bus_pass, e) = Time21
        /\ Len(approach.latest_bus_pass[e[1]].cars) = 2
        /\ TimeOf(approach.latest_bus_pass, <<e[1], 2>>) = Time20

RECURSIVE InFeedOrder(_, _)
InFeedOrder(feed, i) ==
    IF i > Len(feed) THEN <<>>
    ELSE [j \in 1..Len(feed[i].cars) |-> <<i, j>>] \o InFeedOrder(feed, i + 1)

\* C3: current_positions holds exactly one ApproachPosition for every
\* (key, car) pair of the feed whose next-stop index is at least 1, in feed
\* order; several cars of one key are all kept.
C3_CurrentPositionsNotCollapsed ==
    pc = "done" =>
        LET feed == approach.current_bus_positions
            kept == SelectSeq(InFeedOrder(feed, 1), LAMBDA e : e \in Kept(feed))
        IN  /\ Len(result.current_positions) = Len(kept)
            /\ \A k \in 1..Len(kept) :
                  MadeFrom(result.current_positions[k], feed, kept[k])

\* C3 witness: two cars lie between the same pair of stops
C3_Witness ==
    /\ pc = "done"
    /\ \E i, j \in 1..Len(result.current_positions) :
        /\ i # j
        /\ result.current_positions[i].next_stop = result.current_positions[j].next_stop
        /\ result.current_positions[i].car_code # result.current_positions[j].car_code

\* the 0-based place of the first stop with this code, -1 when absent
StopIndex(code) == index(keito, code)

\* the places of the current positions whose previous stop lies before the target
Qualifying(target_stop_index) ==
    {i \in 1..Len(result.current_positions) :
        StopIndex(result.current_positions[i].previous_stop.bus_stop_code)
            < target_stop_index}

Queried == pc = "done" /\ q_code # <<>>

\* C4: get_current_positions_before_code(code) returns one entry for exactly
\* the current positions whose previous stop has an index below the index of
\* code, each with n = target index - previous-stop index >= 1, and nothing
\* when code is the first stop or not a stop of the sequence.
C4_PositionsBeforeCode ==
    Queried =>
        LET target_stop_index == StopIndex(q_code)
        IN  /\ target_stop_index <= 0 => q_positions = <<>>
            /\ Len(q_positions) = Cardinality(Qualifying(target_stop_index))
            /\ \A i \in Qualifying(target_stop_index) :
                  \E k \in 1..Len(q_positions) :
                      q_positions[k].position = result.current_positions[i]
            /\ \A k \in 1..Len(q_positions) :
                  /\ \E i \in Qualifying(target_stop_index) :
                        q_positions[k].position = result.current_positions[i]
                  /\ q_positions[k].n = target_stop_index
                        - StopIndex(q_positions[k].position.previous_stop.bus_stop_code)
                  /\ q_positions[k].n >= 1

\* C4 witness: the query of a later stop returns one position and leaves out
\* another that is not before it
C4_Witness ==
    /\ Queried
    /\ Len(q_positions) = 1
    /\ Len(result.current_positions) = 2
    /\ q_positions[1].n = 1

\* C5: the entries come in the order of their positions in current_positions.
C5_OrderPreserved ==
    Queried =>
        [k \in 1..Len(q_positions) |-> q_positions[k].position]
            = SelectSeq(result.current_positions,
                        LAMBDA p : StopIndex(p.previous_stop.bus_stop_code)
                                       < StopIndex(q_code))

\* C5 witness: the farther bus is listed before the nearer one
C5_Witness ==
    /\ Queried
    /\ Len(q_positions) = 2
    /\ q_positions[1].n > q_positions[2].n

----------------------------------------------------------------------------
(* Properties of get_approach_for_station *)

\* the station number as five decimal digits
ZeroPadded5(n) ==
    [i \in 1..5 |-> DigitChars[((n \div (10 ^ (5 - i))) % 10) + 1]]

\* the bus-stop code the i-th (route, pole) pair is asked about
TargetOf(i) == ZeroPadded5(st_number) \o route_codes[i].pole_code

\* the 0-based place of a code among the stops of the i-th pair's route
PlaceIn(i, code) ==
    index([k \in 1..Len(tasks[i].info.bus_stops) |->
              tasks[i].info.bus_stops[k].bus_stop_code], code)

\* the stops-before-target of the buses of the i-th pair that have yet to
\* reach the target, in the order of current_positions
StopsBefore(i) ==
    LET positions == tasks[i].info.current_positions
        n == [k \in 1..Len(positions) |->
                 PlaceIn(i, TargetOf(i)) - PlaceIn(i, positions[k].previous_stop.bus_stop_code)]
    IN  SelectSeq(n, LAMBDA x : x >= 1 /\ PlaceIn(i, TargetOf(i)) >= 0)

HasLastPass(i) == TargetOf(i) \in DOMAIN tasks[i].info.latest_passes
HasBus(i) == StopsBefore(i) # <<>>

\* the pairs with a last-pass time or an approaching bus, in pair order
ActivePairs ==
    SelectSeq([i \in 1..Len(route_codes) |-> i], LAMBDA i : HasLastPass(i) \/ HasBus(i))

\* the entry is the one of the i-th pair
EntryOf(route, i) ==
    /\ route.route_code = route_codes[i].route_code
    /\ route.last_pass_time = IF HasLastPass(i)
                              THEN tasks[i].info.latest_passes[TargetOf(i)].passed_time
                              ELSE None
    /\ Len(route.approaching_buses) = Len(StopsBefore(i))

\* as many copies of every entry in routes as in approaches
SameEntries ==
    /\ Len(st_routes) = Len(st_approaches)
    /\ \A k \in 1..Len(st_approaches) :
          Cardinality({j \in 1..Len(st_routes) : st_routes[j] = st_approaches[k].route})
              = Cardinality({j \in 1..Len(st_approaches) :
                                st_approaches[j].route = st_approaches[k].route})

\* C6: every entry of the routes list has a last-pass time or at least one
\* approaching bus, and the entries are those of exactly the (route, pole)
\* pairs that have either.
C6_EmittedIffActivity ==
    st_pc = "done" =>
        /\ \A j \in 1..Len(st_routes) :
              st_routes[j].last_pass_time # None \/ Len(st_routes[j].approaching_buses) > 0
        /\ Len(st_approaches) = Len(ActivePairs)
        /\ \A k \in 1..Len(ActivePairs) : EntryOf(st_approaches[k].route, ActivePairs[k])
        /\ SameEntries

\* C6 witness: of two pairs, one has no activity and is left out, the other
\* has a bus on its way but no last pass
C6_Witness ==
    /\ st_pc = "done"
    /\ Len(route_codes) = 2
    /\ Len(st_routes) = 1
    /\ st_routes[1].last_pass_time = None

\* the stops-before-target a location text was made from
StopsOf(bus) == int(SubSeq(bus.location, 1, Len(bus.location) - 1))

\* the smallest stops-before-target among the buses of an entry
Nearest(route) ==
    CHOOSE n \in {StopsOf(route.approaching_buses[k]) :
                     k \in 1..Len(route.approaching_buses)} :
        \A k \in 1..Len(route.approaching_buses) : n <= StopsOf(route.approaching_buses[k])

\* C7: in the routes list every entry with an approaching bus comes before
\* every entry with only a last-pass time, and among entries with approaching
\* buses the nearest bus of an earlier entry is not farther than that of a
\* later entry.
C7_SortedByProximity ==
    st_pc = "done" =>
        \A i, j \in 1..Len(st_routes) :
            i < j =>
                /\ st_routes[j].approaching_buses # <<>>
                      => st_routes[i].approaching_buses # <<>>
                /\ (st_routes[i].approaching_buses # <<>>
                    /\ st_routes[j].approaching_buses # <<>>)
                      => Nearest(st_routes[i]) <= Nearest(st_routes[j])

\* C7 witness: the pair met first has only a last pass, the pair met second
\* has a bus approaching, and the sort has put the second first
C7_Witness ==
    /\ st_pc = "done"
    /\ Len(st_approaches) = 2
    /\ st_approaches[1].route.approaching_buses = <<>>
    /\ st_approaches[2].route.approaching_buses # <<>>
    /\ st_routes[1] = st_approaches[2].route

\* the smallest element of a non-empty sequence of numbers
Smallest(ns) == CHOOSE n \in Range(ns) : \A m \in Range(ns) : n <= m

\* C8: the proximity rank of a pair is the minimum stops-before-target among
\* the current positions before the pole's bus-stop code, the station number
\* zero-padded to five digits followed by the pole code, and the sentinel
\* when there is no such position.
C8_ProximityRank ==
    st_pc = "done" =>
        /\ Len(st_approaches) = Len(ActivePairs)
        /\ \A k \in 1..Len(ActivePairs) :
              st_approaches[k].sort_key =
                  IF HasBus(ActivePairs[k]) THEN Smallest(StopsBefore(ActivePairs[k]))
                  ELSE _MAX_SORT_KEY

\* C8 witness: a pair with two buses, the farther listed first, and a pair
\* without buses that carries the sentinel
C8_Witness ==
    /\ st_pc = "done"
    /\ \E k \in 1..Len(ActivePairs) :
          /\ Len(StopsBefore(ActivePairs[k])) = 2
          /\ StopsBefore(ActivePairs[k])[1] > StopsBefore(ActivePairs[k])[2]

Raised == {i \in 1..Len(tasks) : tasks[i].status = "raised"}

\* C9: once the engine call of any pair has raised, the operation cannot
\* return: the exception is pending in the tool, no routes list is ever
\* produced, the operation ends failed, and the error it fails with is the
\* error of an engine call that raised, whatever the other calls ended with.
C9_AllOrNothing ==
    /\ Raised # {} =>
        /\ st_pc \in {"gather", "failed"}
        /\ st_error # ""
        /\ st_routes = <<>>
    /\ (st_pc = "failed" /\ tasks # <<>>) =>
        \E i \in Raised : st_error = tasks[i].error
    /\ st_pc = "done" => \A i \in 1..Len(tasks) : tasks[i].status = "returned"

\* C9 witness: the operation failed although one of its two engine calls
\* returned a result
C9_Witness ==
    /\ st_pc = "failed"
    /\ Len(tasks) = 2
    /\ \E i, j \in 1..2 :
        /\ tasks[i].status = "raised"
        /\ tasks[j].status = "returned"
        /\ tasks[j].info.current_positions # <<>>

----------------------------------------------------------------------------
(* Properties of the gateway *)

\* the upstream answer for a missing resource: 200, an HTML content type and
\* a body holding the marker
Disguised404 ==
    /\ cl_response.status_code = 200
    /\ \E i \in 1..Len(cl_response.content_type) : cl_response.content_type[i] = "text/html"
    /\ \E i \in 1..Len(cl_response.content) : cl_response.content[i] = "404 NotFound"

C11_OneRequestNoRetry ==
    cl_op # "" =>
        /\ cl_sent = 1
        /\ cl_response = cl_upstream[1]
        /\ cl_upstream[1].status_code \notin 200..299
              => cl_outcome = "HTTPStatusError"

\* C11 witness: the first answer is a 500 and a second request would have
\* been answered with the payload
C11_Witness ==
    /\ cl_op = "get_station_names"
    /\ cl_upstream[1].status_code = 500
    /\ cl_upstream[2].status_code = 200
    /\ cl_upstream[2].content = Payload
    /\ cl_outcome = "HTTPStatusError"

----------------------------------------------------------------------------
(* Properties of get_station_number and get_timetable *)

\* the places of the table whose name is the queried one
ExactEntries(name) == {i \in 1..Len(base_stations) : base_stations[i].name = name}

\* the places of the table whose name is similar enough to the queried one
\* and no less similar than any other
BestEntries(name) ==
    {i \in 1..Len(base_stations) :
        /\ frac_ge(ratio(base_stations[i].name, name), <<6, 10>>)
        /\ \A j \in 1..Len(base_stations) :
              frac_ge(ratio(base_stations[i].name, name),
                      ratio(base_stations[j].name, name))}

\* C12: get_station_number(name) returns (name, number) when name is a key
\* of the station table; otherwise the name and number of the fuzzy match at
\* cutoff 0.6 when there is one; otherwise it fails with "Station not found:
\* <name>"; it never returns an absent name or number.
C12_ExactThenFuzzyThenError ==
    tool_call.tool = "get_station_number" =>
        LET name == tool_call.station_name
        IN  /\ tool_pc = "returned" =>
                  /\ tool_value.station_name # NoName
                  /\ tool_value.station_number # NoNumber
            /\ ExactEntries(name) # {} =>
                  /\ tool_pc = "returned"
                  /\ tool_value.station_name = name
                  /\ \E i \in ExactEntries(name) :
                        tool_value.station_number = base_stations[i].number
            /\ (ExactEntries(name) = {} /\ BestEntries(name) # {}) =>
                  /\ tool_pc = "returned"
                  /\ \E i \in BestEntries(name) :
                        tool_value.station_number = base_stations[i].number
                  /\ \E i \in 1..Len(base_stations) :
                        /\ base_stations[i].name = tool_value.station_name
                        /\ base_stations[i].number = tool_value.station_number
            /\ (ExactEntries(name) = {} /\ BestEntries(name) = {}) =>
                  /\ tool_pc = "raised"
                  /\ tool_error = <<"Station not found: ", name>>

\* the station numbers of the reference data
KnownNumbers == {base_stations[i].number : i \in 1..Len(base_stations)}

\* C13: get_timetable(n) for a station number that is not in the reference
\* data fails with "Station number not found: <n>" and sends no timetable
\* request; what it returns is never absent.
C13_UnknownNumberNotFetched ==
    tool_call.tool = "get_timetable" =>
        /\ tool_call.station_number \notin KnownNumbers =>
              /\ tool_pc = "raised"
              /\ tool_error = <<"Station number not found: ",
                                <<DigitChars[tool_call.station_number + 1]>>>>
              /\ tool_requests = 0
        /\ tool_pc = "returned" =>
              /\ tool_value.station_number = tool_call.station_number
              /\ tool_value.station_name # NoName

\* C13 witness: the table has stations, the number asked for is none of
\* theirs, and the tool failed without a request
C13_Witness ==
    /\ tool_call.tool = "get_timetable"
    /\ base_stations # <<>>
    /\ tool_call.station_number \notin KnownNumbers
    /\ tool_pc = "raised"
    /\ tool_requests = 0

----------------------------------------------------------------------------
(* Properties of the caches *)

\* C14: the live feed a finished invocation returns was fetched by that
\* invocation: it is never older than the feed upstream served when the
\* invocation began, however many invocations of the same route went before
\* and whether or not the route master came from the cache.
C14_FeedNeverCached ==
    \A t \in Tasks :
        callers[t].pc = "done" =>
            /\ callers[t].approach_info >= callers[t].started
            /\ callers[t].approach_info <= feed_now
            /\ feed_fetches >= 1

\* C14 witness: an invocation that took its route master from the cache, began
\* after the feed had changed, and returned the changed feed
C14_Witness ==
    \E t \in Tasks :
        /\ callers[t].pc = "done"
        /\ keito_callers[callers[t].route_code] > keito_fetches[callers[t].route_code]
        /\ callers[t].started > 0
        /\ feed_fetches >= 2
        /\ callers[t].approach_info = feed_now

\* C16: when several invocations ask for the same route while it is not in
\* the cache, every route master an invocation obtains is one that upstream
\* served for that route, the cache holds for each route exactly the entries
\* upstream served for it (one entry, present as soon as an answer came), and
\* the requests sent for a route never outnumber the invocations of it.
C16_RaceOnFirstPopulateIsSafe ==
    /\ \A t \in Tasks :
          callers[t].route_master # NoMaster =>
              callers[t].route_master \in keito_served[callers[t].route_code]
    /\ \A route_code \in RouteCodes :
          /\ route_code \in DOMAIN _cached_route_masters <=> keito_served[route_code] # {}
          /\ route_code \in DOMAIN _cached_route_masters =>
                /\ _cached_route_masters[route_code] \in keito_served[route_code]
                /\ _cached_route_masters[route_code].keito = route_code
          /\ keito_fetches[route_code] <= keito_callers[route_code]

\* C16 witness: two invocations missed the same route at once, upstream
\* answered them differently, each went on with the master it was served, and
\* the cache holds the one stored last
C16_Witness ==
    \E route_code \in RouteCodes :
        /\ keito_fetches[route_code] = 2
        /\ Cardinality(keito_served[route_code]) = 2
        /\ \A t \in Tasks : /\ callers[t].route_code = route_code
                            /\ callers[t].route_master # NoMaster
        /\ callers[1].route_master # callers[2].route_master
        /\ _cached_route_masters[route_code] = callers[2].route_master

----------------------------------------------------------------------------
(* Properties of the server lifespan *)

\* C15: one Client is created when the lifespan starts; it is closed however
\* the scope is left, by return, by a failure of init_base_data or by an
\* exception of the server; and a gateway operation called on the closed
\* client raises instead of sending a request.
C15_ClientClosedOnEveryExit ==
    /\ ls_created <= 1
    /\ ls_pc # "start" => ls_created = 1
    /\ ls_pc \in {"init_base_data", "serving"} => bus_client = "open"
    /\ ls_pc = "exited" =>
          /\ ls_exit \in {"returned", "init_base_data raised", "server raised"}
          /\ bus_client = "closed"
    /\ ls_sent_closed = 0
    /\ ls_last.client = "closed" => ls_last.outcome = "RuntimeError"

\* C15 witness: init_base_data failed, the scope was left, and an operation
\* tried on the client afterwards raised
C15_Witness ==
    /\ ls_pc = "exited"
    /\ ls_exit = "init_base_data raised"
    /\ bus_client = "closed"
    /\ ls_last.op = "get_station_names"
    /\ ls_last.outcome = "RuntimeError"

----------------------------------------------------------------------------
(* Properties of _resolve_bus_stop *)

\* a code of at least five characters whose first five are decimal digits
WellFormed(code) == Len(code) >= 5 /\ \A i \in 1..5 : code[i] \in Range(DigitChars)

DigitValue(c) == CHOOSE d \in 0..9 : DigitChars[d + 1] = c

\* the number the first five digits of a well-formed code write
Value5(code) ==
    10000 * DigitValue(code[1]) + 1000 * DigitValue(code[2]) + 100 * DigitValue(code[3])
    + 10 * DigitValue(code[4]) + DigitValue(code[5])

\* C17: resolving a code that is shorter than five characters, or whose first
\* five characters are not all digits, raises and produces no bus stop; and a
\* call of get_realtime_approach that has ended on a route holding such a
\* code has failed and returned no ApproachInfo.
C17_MalformedCodeIsAnError ==
    /\ rs_pc # "idle" /\ ~WellFormed(rs_code) =>
          /\ rs_stop.error = "ValueError"
          /\ rs_stop.value = NoBusStop
    /\ pc \in {"done", "failed"} /\ (\E i \in 1..Len(keito) : ~WellFormed(keito[i])) =>
          /\ pc = "failed"
          /\ error # ""
          /\ result = NoInfo

\* C17 witness: both responses arrived, the feed has events, the route's
\* first code is one of the fixtures and its second is malformed, and the
\* call failed with the ValueError
C17_Witness ==
    /\ pc = "failed"
    /\ error = "ValueError"
    /\ Len(keito) = 2
    /\ keito[1] \in StopCodes
    /\ ~WellFormed(keito[2])
    /\ approach.latest_bus_pass # <<>>
    /\ result = NoInfo

\* C18: for every code of at least five characters whose first five are
\* digits, the resolution succeeds with the station number those five digits
\* write, and a second resolution of the code gives the same station number.
C18_StationNumberExtracted ==
    rs_pc # "idle" /\ WellFormed(rs_code) =>
        /\ rs_stop.error = ""
        /\ rs_stop.value.station_number = Value5(rs_code)
        /\ rs_pc = "again" =>
              /\ rs_again.error = ""
              /\ rs_again.value.station_number = rs_stop.value.station_number

\* C19: a well-formed code whose station number was extracted resolves
\* without an error whatever the reference data holds: the code and the
\* number are filled in, the station name is the table's or, when the table
\* has none, the placeholder, and likewise the pole label.
C19_MissingReferenceDataIsNoError ==
    rs_pc # "idle" /\ WellFormed(rs_code) /\ Value5(rs_code) # 0 =>
        /\ rs_stop.error = ""
        /\ rs_stop.value.bus_stop_code = rs_code
        /\ rs_stop.value.station_number = Value5(rs_code)
        /\ rs_stop.value.station_name =
              IF Value5(rs_code) \in DOMAIN station_name_by_number
              THEN station_name_by_number[Value5(rs_code)] ELSE UnknownBusStop
        /\ rs_stop.value.pole =
              IF rs_code \in DOMAIN pole_name_by_code
              THEN pole_name_by_code[rs_code] ELSE UnknownPole

\* C19 witness: a well-formed code that neither table knows was resolved to
\* the two placeholders
C19_Witness ==
    /\ rs_pc = "resolved"
    /\ WellFormed(rs_code)
    /\ Value5(rs_code) \notin DOMAIN station_name_by_number
    /\ rs_code \notin DOMAIN pole_name_by_code
    /\ rs_stop.error = ""
    /\ rs_stop.value.station_number = 2
    /\ rs_stop.value.station_name = UnknownBusStop
    /\ rs_stop.value.pole = UnknownPole

----------------------------------------------------------------------------
(* Properties of _normalize_route_name *)

\* the ASCII character of a full-width digit, C or hyphen; any other
\* character itself
HalfWidth(c) ==
    CASE c = "fw0" -> "0"
      [] c = "fw1" -> "1"
      [] c = "fw2" -> "2"
      [] c = "fw3" -> "3"
      [] c = "fw4" -> "4"
      [] c = "fw5" -> "5"
      [] c = "fw6" -> "6"
      [] c = "fw7" -> "7"
      [] c = "fw8" -> "8"
      [] c = "fw9" -> "9"
      [] c = "fwC" -> "C"
      [] c = "fw-" -> "-"
      [] OTHER -> c

\* C20: the normalized name has the length of the name; each of its
\* characters is the ASCII equivalent of the name's when that is a full-width
\* digit, C or hyphen, and the name's own character otherwise; and
\* normalizing the normalized name changes nothing.
C20_NormalizeIdempotent ==
    /\ rn_pc # "idle" =>
          /\ Len(rn_route) = Len(rn_name)
          /\ \A i \in 1..Len(rn_name) : rn_route[i] = HalfWidth(rn_name[i])
    /\ rn_pc = "again" => rn_again = rn_route

\* C20 witness: a name of a full-width digit and a kanji was normalized
\* twice; the first pass changed it and the second did not
C20_Witness ==
    /\ rn_pc = "again"
    /\ rn_name = <<"fw1", "sakae">>
    /\ rn_route = <<"1", "sakae">>
    /\ rn_again = rn_route

----------------------------------------------------------------------------
(* Properties of the lookups of BaseData *)

\* the station names of the reference data
TableNames == {base_stations[i].name : i \in 1..Len(base_stations)}

\* C21: for every name of the station table the name found for its number is
\* that name, and for every number of the table the number found for its
\* name is that number.
C21_LookupsRoundTrip ==
    /\ (tool_call.tool = "name_round_trip" /\ tool_call.station_name \in TableNames) =>
          tool_value.station_name = tool_call.station_name
    /\ (tool_call.tool = "number_round_trip" /\ tool_call.station_number \in KnownNumbers) =>
          tool_value.station_number = tool_call.station_number

\* the places of the table whose name reaches the cutoff of the call
Reaching ==
    {i \in 1..Len(base_stations) :
        frac_ge(ratio(base_stations[i].name, tool_call.station_name), tool_call.cutoff)}

\* of these, the places whose ratio no other name exceeds
Best ==
    {i \in Reaching :
        \A j \in 1..Len(base_stations) :
            frac_ge(ratio(base_stations[i].name, tool_call.station_name),
                    ratio(base_stations[j].name, tool_call.station_name))}

\* what find_station_number returns according to the claim C22
BestMatchOrAbsent ==
    /\ tool_pc = "returned"
    /\ Reaching # {} => \E i \in Best : tool_value.station_number = base_stations[i].number
    /\ Reaching = {} <=> tool_value.station_number = NoNumber
    /\ \A i \in 1..Len(base_stations) :
          base_stations[i].name = tool_call.station_name =>
              tool_value.station_number = base_stations[i].number

\* C22 as stated: for every cutoff, find_station_number(name, cutoff) returns
\* the number of a station whose ratio is the greatest of the table and at
\* least the cutoff, absent exactly when no name reaches the cutoff, and the
\* number of the station named as the query when there is one.
C22_BestMatchForAnyCutoff ==
    tool_call.tool = "find_station_number" => BestMatchOrAbsent

\* C22, amended: the same for every cutoff from 0 to 1; for a cutoff below 0
\* or above 1 the call raises ValueError and returns nothing.
C22_BestMatchAtOrAboveCutoff ==
    tool_call.tool = "find_station_number" =>
        IF frac_ge(tool_call.cutoff, <<0, 1>>) /\ frac_ge(<<1, 1>>, tool_call.cutoff)
        THEN BestMatchOrAbsent
        ELSE /\ tool_pc = "raised"
             /\ tool_error = <<"ValueError">>
             /\ tool_value = NoValue

\* C22 witness: two names reach the cutoff, the second of the table is the
\* only best one, and its number, which is not the first's, was returned
C22_Witness ==
    /\ tool_call.tool = "find_station_number"
    /\ tool_pc = "returned"
    /\ Reaching = {1, 2}
    /\ Best = {2}
    /\ base_stations[1].number # base_stations[2].number
    /\ tool_value.station_number = base_stations[2].number

\* C24: when several names tie at the greatest ratio, find_station_number
\* returns the number of the one that comes first in the station table.
C24_TieKeepsFirstInTable ==
    (tool_call.tool = "find_station_number" /\ tool_pc = "returned" /\ Best # {}) =>
        tool_value.station_number =
            base_stations[CHOOSE i \in Best : \A j \in Best : i <= j].number

----------------------------------------------------------------------------
(* Further properties of get_realtime_approach *)

\* event e comes no later than event f in feed order
NoLater(e, f) == e[1] < f[1] \/ (e[1] = f[1] /\ e[2] <= f[2])

\* C23: the record retained for a previous stop is made from the first, in
\* feed order, of the updates that carry the greatest passed_time for that
\* stop: an update of equal passed_time that comes later does not replace it.
C23_TieKeepsFirstSeen ==
    pc = "done" =>
        LET feed == approach.latest_bus_pass
        IN  \A previous_stop_id \in DOMAIN result.latest_passes :
                \E e \in Kept(feed) :
                    /\ PreviousStopId(feed[e[1]].key) = previous_stop_id
                    /\ MadeFrom(result.latest_passes[previous_stop_id], feed, e)
                    /\ \A f \in Kept(feed) :
                          PreviousStopId(feed[f[1]].key) = previous_stop_id =>
                              /\ str_ge(TimeOf(feed, e), TimeOf(feed, f))
                              /\ TimeOf(feed, f) = TimeOf(feed, e) => NoLater(e, f)

\* C23 witness: one key reports two cars with the same passed_time, and the
\* record retained for its previous stop is the first car's
C23_Witness ==
    /\ pc = "done"
    /\ \E e \in Kept(approach.latest_bus_pass) :
        LET feed == approach.latest_bus_pass
        IN  /\ e[2] = 1
            /\ Len(feed[e[1]].cars) = 2
            /\ TimeOf(feed, <<e[1], 2>>) = TimeOf(feed, e)
            /\ CarOf(feed, <<e[1], 2>>) # CarOf(feed, e)
            /\ result.latest_passes[PreviousStopId(feed[e[1]].key)].car_code = CarOf(feed, e)

\* the stop of a feed key is one of the route's stops
InRoute(key) == \E i \in 1..Len(keito) : keito[i] = replace_slash(key)

\* the keys of both event classes of the feed received
FeedKeysReceived ==
    {approach.latest_bus_pass[i].key : i \in 1..Len(approach.latest_bus_pass)}
    \cup {approach.current_bus_positions[i].key : i \in 1..Len(approach.current_bus_positions)}

\* C25: when the feed holds a key whose stop, after slash removal, is not in
\* the route's stop sequence, get_realtime_approach ends by raising and
\* returns no ApproachInfo, whatever the other events of the feed are.
C25_UnknownKeyFails ==
    (pc \in {"done", "failed"} /\ \E key \in FeedKeysReceived : ~InRoute(key)) =>
        /\ pc = "failed"
        /\ error = "ValueError"
        /\ result = NoInfo

\* C25 witness: the latest-pass feed held only an event that has a previous
\* stop, the current-position feed a key outside the route, and the call failed
C25_Witness ==
    /\ pc = "failed"
    /\ error = "ValueError"
    /\ result = NoInfo
    /\ Len(approach.latest_bus_pass) = 1
    /\ InRoute(approach.latest_bus_pass[1].key)
    /\ NextStopIndex(approach.latest_bus_pass[1].key) >= 1
    /\ \E i \in 1..Len(approach.current_bus_positions) :
          ~InRoute(approach.current_bus_positions[i].key)

\* C26: the fetch of the route master and the fetch of the live feed are
\* started independently of each other: once the call has begun both are
\* under way, neither waiting for the other to end, and a call that has
\* ended has started both whatever the outcome of either.
C26_FetchesIndependent ==
    pc # "idle" => issued = {"get_keito", "get_realtime_approach"}

\* the record's next stop stands at some place of bus_stops other than the
\* first, and its previous stop at the place just before
Adjacent(record) ==
    \E i \in 2..Len(result.bus_stops) :
        /\ result.bus_stops[i] = record.next_stop
        /\ result.bus_stops[i - 1] = record.previous_stop

\* C27: in every ApproachInfo returned, each entry of latest_passes is keyed
\* by the code of its record's previous stop; every record of latest_passes
\* and of current_positions has its next stop in bus_stops at a place other
\* than the first and its previous stop at the place just before; so the
\* previous stop of every current position is found in bus_stops.
C27_RecordsLieOnTheRoute ==
    pc = "done" =>
        /\ \A code \in DOMAIN result.latest_passes :
              result.latest_passes[code].previous_stop.bus_stop_code = code
        /\ \A record \in LatestRecords \cup CurrentRecords : Adjacent(record)
        /\ \A record \in CurrentRecords :
              \E i \in 1..Len(result.bus_stops) : result.bus_stops[i] = record.previous_stop
        /\ \A k \in 1..Len(q_positions) :
              /\ q_positions[k].n >= 1
              /\ q_positions[k].n < Len(result.bus_stops)

\* C27 witness: a returned ApproachInfo for a route of three stops with a
\* latest pass and a current position, queried for the positions before a stop
C27_Witness ==
    /\ pc = "done"
    /\ Len(result.bus_stops) = 3
    /\ DOMAIN result.latest_passes # {}
    /\ Len(result.current_positions) = 1
    /\ result.current_positions[1].previous_stop = result.bus_stops[2]
    /\ Len(q_positions) = 1

----------------------------------------------------------------------------
(* Further properties of get_approach_for_station *)

\* no code occurs twice in the stop sequence
Distinct(stops) == \A i, j \in 1..Len(stops) : i # j => stops[i] # stops[j]

\* the last stop of the route of the i-th pair
LastStopOf(i) ==
    LET stops == KeitoMaster[route_codes[i].route_code] IN stops[Len(stops)]

\* C28: for a route without a repeated code, the code of the last stop is
\* never a key of latest_passes and get_last_pass_time_for_code returns None
\* for it, in the engine's own result and in every result the aggregator
\* gathers; and an entry the aggregator emits for a pair whose pole is the
\* route's last stop has no last-pass time and at least one approaching bus.
C28_LastStopHasNoLastPass ==
    /\ (pc = "done" /\ keito # <<>> /\ Distinct(keito)) =>
          /\ keito[Len(keito)] \notin DOMAIN result.latest_passes
          /\ get_last_pass_time_for_code(result, keito[Len(keito)]) = None
    /\ \A i \in 1..Len(tasks) :
          (tasks[i].status = "returned"
           /\ Distinct(KeitoMaster[route_codes[i].route_code])) =>
              /\ LastStopOf(i) \notin DOMAIN tasks[i].info.latest_passes
              /\ get_last_pass_time_for_code(tasks[i].info, LastStopOf(i)) = None
    /\ st_pc = "done" =>
          /\ Len(st_approaches) = Len(ActivePairs)
          /\ \A k \in 1..Len(st_approaches) :
                (/\ TargetOf(ActivePairs[k]) = LastStopOf(ActivePairs[k])
                 /\ Distinct(KeitoMaster[route_codes[ActivePairs[k]].route_code])) =>
                    /\ st_approaches[k].route.last_pass_time = None
                    /\ Len(st_approaches[k].route.approaching_buses) >= 1

\* C28 witness: the pole of the only pair is the last stop of its route; the
\* feed reports a pass with the last stop as next stop and a bus on its way;
\* the entry is emitted with the bus and without a last-pass time
C28_Witness ==
    /\ st_pc = "done"
    /\ Len(route_codes) = 1
    /\ TargetOf(1) = LastStopOf(1)
    /\ \E code \in DOMAIN tasks[1].info.latest_passes :
          tasks[1].info.latest_passes[code].next_stop.bus_stop_code = LastStopOf(1)
    /\ Len(st_routes) = 1
    /\ st_routes[1].last_pass_time = None
    /\ Len(st_routes[1].approaching_buses) >= 1

\* the target code of the i-th pair is a stop of the pair's route
TargetInRoute(i) ==
    \E k \in 1..Len(tasks[i].info.bus_stops) :
        tasks[i].info.bus_stops[k].bus_stop_code = TargetOf(i)

\* the pole label resolved for the target stop of the i-th pair
ResolvedPole(i) ==
    tasks[i].info.bus_stops[CHOOSE k \in 1..Len(tasks[i].info.bus_stops) :
        /\ tasks[i].info.bus_stops[k].bus_stop_code = TargetOf(i)
        /\ \A j \in 1..(k - 1) : tasks[i].info.bus_stops[j].bus_stop_code # TargetOf(i)].pole

\* the entry carries the route, the last-pass time and as many buses as the
\* i-th pair has
EntryOfPair(route, i) ==
    /\ route.route_code = route_codes[i].route_code
    /\ \/ /\ HasLastPass(i)
          /\ route.last_pass_time # None
          /\ route.last_pass_time = tasks[i].info.latest_passes[TargetOf(i)].passed_time
       \/ /\ ~HasLastPass(i)
          /\ route.last_pass_time = None
    /\ Len(route.approaching_buses) = Len(StopsBefore(i))

\* C29: every entry the aggregator emits is the entry of a (route, pole)
\* pair whose target code is a stop of the route, and its pole label is the
\* one resolved for that stop; no entry is emitted for a pair whose target
\* code the route does not hold.
C29_EmittedTargetIsOnRoute ==
    st_pc = "done" =>
        /\ \A k \in 1..Len(st_approaches) :
              \E i \in 1..Len(route_codes) :
                  /\ EntryOfPair(st_approaches[k].route, i)
                  /\ TargetInRoute(i)
                  /\ st_approaches[k].route.pole = ResolvedPole(i)
        /\ Len(st_approaches)
              <= Cardinality({i \in 1..Len(route_codes) : TargetInRoute(i)})

\* C29 witness: of two pairs, the target of one is no stop of its route and
\* the pair is left out; the other is emitted with the pole label of its stop
C29_Witness ==
    /\ st_pc = "done"
    /\ Len(route_codes) = 2
    /\ \E i \in 1..2 : ~TargetInRoute(i)
    /\ Len(st_routes) = 1
    /\ st_routes[1].pole = pole_name_by_code[Code1P]

----------------------------------------------------------------------------
(* get_realtime_approach on routes that visit a stop twice *)

\* the places of a code in the stop sequence
Places(code) == {i \in 1..Len(keito) : keito[i] = code}

\* the first of them
FirstPlace(code) == CHOOSE i \in Places(code) : \A j \in Places(code) : i <= j

\* the records of a result that have the code as their next stop
RecordsTo(records, code) == {r \in records : r.next_stop.bus_stop_code = code}

\* C30: for a code that occurs more than once in the stop sequence, every
\* record with that code as next stop has as previous stop the element before
\* the code's first occurrence; when the first occurrence is the first stop
\* there is no such record, although the code occurs again later; otherwise
\* every current-position event of the code is recorded and its latest-pass
\* events are recorded under the element before the first occurrence.
C30_FirstOccurrenceOnly ==
    pc = "done" =>
        \A code \in Range(keito) :
            Cardinality(Places(code)) >= 2 =>
                IF FirstPlace(code) = 1
                THEN RecordsTo(LatestRecords \cup CurrentRecords, code) = {}
                ELSE /\ \A r \in RecordsTo(LatestRecords \cup CurrentRecords, code) :
                           r.previous_stop.bus_stop_code = keito[FirstPlace(code) - 1]
                     /\ \A e \in Events(approach.current_bus_positions) :
                           replace_slash(approach.current_bus_positions[e[1]].key) = code =>
                               \E r \in RecordsTo(CurrentRecords, code) :
                                   r.car_code = CarOf(approach.current_bus_positions, e)
                     /\ \A e \in Events(approach.latest_bus_pass) :
                           replace_slash(approach.latest_bus_pass[e[1]].key) = code =>
                               keito[FirstPlace(code) - 1] \in DOMAIN result.latest_passes

\* C30 witness: the route begins and ends with the same stop, the feed
\* reports a bus heading for that stop and nothing else, and the returned
\* ApproachInfo holds no position
C30_Witness ==
    /\ pc = "done"
    /\ Len(keito) = 3
    /\ keito[1] = keito[3]
    /\ keito[2] # keito[1]
    /\ Len(approach.current_bus_positions) = 1
    /\ replace_slash(approach.current_bus_positions[1].key) = keito[1]
    /\ result.current_positions = <<>>

====
